---- MODULE Spec2Model ----
(***************************************************************************)
(* Order-book state management of the market-depth service.                *)
(*                                                                         *)
(* Part 1 models one OrderBook (src/src/OrderBook.cpp): the snapshot it    *)
(* keeps, the copy it keeps of the one before, and the CDC events it hands *)
(* to its callback while a snapshot is processed. Specification: Spec;     *)
(* with the sides of the last input kept in the state: RecordedSpec.       *)
(*                                                                         *)
(* Part 2 models the map of the OrderBookManager and the threads that look *)
(* order books up in it. Specification: RegistrySpec; with the threads    *)
(* that hand snapshots to the manager: ManagerSpec.                        *)
(*                                                                         *)
(* Part 3 models the MessageFactory and the MessageRouter                  *)
(* (src/src/MessageFactory.cpp). Specifications: FactorySpec, RouterSpec.  *)
(*                                                                         *)
(* Part 4 models the MarketDepthProcessor                                  *)
(* (src/src/MarketDepthProcessor.cpp): what it publishes for a snapshot,   *)
(* specification PublishSpec; and its threads from initialize() to         *)
(* stop_processing(), specification LifecycleSpec (with fair scheduling:   *)
(* FairLifecycleSpec).                                                     *)
(*                                                                         *)
(* Part 5 models the PerformanceMetrics                                    *)
(* (src/include/MarketDepthProcessor.hpp) under threads: the calls of      *)
(* update_processing_time, specification TimingSpec; and the worker of    *)
(* processing_loop beside the statistics thread in print_statistics,       *)
(* specification StatisticsSpec.                                           *)
(***************************************************************************)
EXTENDS Integers, Sequences, FiniteSets, TLC

(***************************************************************************)
(* Bounds of the model.                                                    *)
(***************************************************************************)
\* Total size of the snapshots handed to the book in one run. A call counts
\* 1, and so does each level and each order of its snapshot.
MaxInput == 6
\* Size of one snapshot: its levels and its orders.
MaxSnapshot == 2
\* Number of threads that use the OrderBookManager.
NumThreads == 2
\* Number of calls the threads make on the OrderBookManager, all together.
MaxLookups == 3
\* Number of calls made on a MessageRouter.
MaxRouted == 3
\* The last reading of the clock: it stands for every later time as well.
MaxTime == 1
\* Number of calls of update_processing_time, all threads together.
MaxSamples == 3
\* Number of messages the worker processes beside the statistics thread.
MaxWorked == 1
\* Number of snapshots an OrderBook accepts when their sides are recorded.
MaxRecorded == 2
\* Number of polls of the processing loop that return a message or an error.
MaxPolled == 1
\* Values the data fields of the inputs are drawn from.
Prices == {0, 1}
Qtys == {1, 2}
Seqs == {1, 2}
Symbols == {"ABC", "XYZ"}
\* The values of max_price_levels a book is configured with: a cap that cuts
\* a side of two prices short, and one that does not.
Caps == {1, 2}
\* recent_trade_price() and recent_trade_qty() of the inputs. The book only
\* stores them; one value, not the 0 of a fresh snapshot, stands for all.
Trades == {[price |-> 3, qty |-> 1]}

(***************************************************************************)
(* Types of src/include/OrderBookTypes.hpp                                 *)
(***************************************************************************)
Buy == "Buy"
Sell == "Sell"

LevelAdded == "LevelAdded"
LevelModified == "LevelModified"
LevelRemoved == "LevelRemoved"

\* PriceLevel(): price 0, quantity 0, num_orders 0, no exchanges.
PriceLevel(p, qty, orders) ==
    [price |-> p, quantity |-> qty, num_orders |-> orders, exchanges |-> <<>>]

\* Variant of LevelEq that leaves the quantity out of the comparison.
LevelEqNoQuantity(a, b) ==
    /\ a.price = b.price
    /\ a.num_orders = b.num_orders

\* PriceLevel::operator==: the exchanges are not compared.
LevelEq(a, b) ==
    /\ a.price = b.price
    /\ a.quantity = b.quantity
    /\ a.num_orders = b.num_orders

\* Variant of LevelNe that compares the two objects' identity, not their
\* values: two levels held by two maps always differ.
LevelNeIdentity(a, b) == TRUE

\* PriceLevel::operator!=
LevelNe(a, b) == ~LevelEq(a, b)

\* An empty std::map.
EmptyMap == [p \in {} |-> PriceLevel(0, 0, 0)]

\* InternalOrderBookSnapshot() followed by the assignment of the symbol.
EmptySnapshot(sym) ==
    [symbol |-> sym, sequence |-> 0, timestamp_us |-> 0,
     bid_levels |-> EmptyMap, ask_levels |-> EmptyMap,
     last_trade_price |-> 0, last_trade_quantity |-> 0]

\* The ingest clock. Nothing in the code compares two readings, so every
\* reading is the same value, different from the 0 of a fresh snapshot.
get_timestamp_us == 1

(***************************************************************************)
(* std::map                                                                *)
(***************************************************************************)
\* m[p] = lvl
MapPut(m, p, lvl) ==
    [q \in (DOMAIN m) \cup {p} |-> IF q = p THEN lvl ELSE m[q]]

\* Variant of Before in which bid_levels is declared without std::greater.
BeforeLess(side, a, b) == a < b

\* The comparator of the side's map: std::greater for bid_levels, std::less
\* for ask_levels. Before(side, a, b): key a is iterated before key b.
Before(side, a, b) == IF side = Buy THEN a > b ELSE a < b

\* begin() of a non-empty key set under the side's comparator.
FirstKey(side, keys) ==
    CHOOSE k \in keys : \A o \in keys \ {k} : Before(side, k, o)

\* The keys in iteration order.
RECURSIVE IterKeys(_, _)
IterKeys(side, keys) ==
    IF keys = {} THEN <<>>
    ELSE LET k == FirstKey(side, keys)
         IN  <<k>> \o IterKeys(side, keys \ {k})

(***************************************************************************)
(* The decoded input (read-only flatbuffers view). Every accessor that     *)
(* returns a pointer may return nullptr: such a field has present = FALSE. *)
(***************************************************************************)
NullOrder == [present |-> FALSE, qty |-> 0]
NullOrders == [present |-> FALSE, items |-> <<>>]
NullLevel == [present |-> FALSE, price |-> 0, orders |-> NullOrders]
NullSide == [present |-> FALSE, levels |-> <<>>]

\* The items of orders(): an order with its qty(), or null.
OrderItems == {NullOrder} \cup {[present |-> TRUE, qty |-> q] : q \in Qtys}

RECURSIVE SeqsUpTo(_, _)
SeqsUpTo(S, n) ==
    IF n <= 0 THEN {<<>>}
    ELSE LET shorter == SeqsUpTo(S, n - 1)
         IN  shorter \cup
             {Append(s, x) : s \in {t \in shorter : Len(t) = n - 1}, x \in S}

\* orders() of a level with at most n items: null, or a vector.
OrderVectors(n) ==
    {NullOrders} \cup {[present |-> TRUE, items |-> v] : v \in SeqsUpTo(OrderItems, n)}

\* The size of a level: 1 for the level, 1 for each item of its orders.
LevelSize(level) == 1 + Len(level.orders.items)

\* The levels of size at most n.
InLevels(n) ==
    IF n < 1 THEN {}
    ELSE {NullLevel} \cup
         {[present |-> TRUE, price |-> p, orders |-> o] :
              p \in Prices, o \in OrderVectors(n - 1)}

\* The vectors of levels of total size at most n.
RECURSIVE LevelVectors(_)
LevelVectors(n) ==
    {<<>>} \cup
    UNION {{<<l>> \o rest : rest \in LevelVectors(n - LevelSize(l))} : l \in InLevels(n)}

RECURSIVE VectorSize(_)
VectorSize(levels) ==
    IF levels = <<>> THEN 0
    ELSE LevelSize(Head(levels)) + VectorSize(Tail(levels))

\* buy_side() / sell_side() of total size at most n: null, or a vector.
InSides(n) ==
    {NullSide} \cup {[present |-> TRUE, levels |-> v] : v \in LevelVectors(n)}

BodySize(body) ==
    VectorSize(body.buy_side.levels) + VectorSize(body.sell_side.levels)

\* What a snapshot carries besides its symbol and seq, of size at most n.
InBodies(n) ==
    UNION {{[buy_side |-> b, sell_side |-> s, trade |-> t] :
                s \in InSides(n - VectorSize(b.levels)), t \in Trades} :
           b \in InSides(n)}


Min(a, b) == IF a < b THEN a ELSE b

\* symbol(): null, or a string.
NoSymbol == "<null>"
InSymbols == Symbols \cup {NoSymbol}

(***************************************************************************)
(* OrderBook (src/src/OrderBook.cpp)                                       *)
(***************************************************************************)
VARIABLES
    symbol_,             \* the symbol the book was constructed for
    config_,             \* DepthConfig: [enable_cdc, max_price_levels]
    cdc_callback_,       \* TRUE when a callback is installed, FALSE when empty
    current_snapshot_,
    previous_snapshot_,
    message_count_,
    initialized_,
    delivered,           \* the events the callback received during the last call
    ret,                 \* what the last call returned: "true", "false", or
                         \* "none" before the first call
    arg,                 \* the symbol and seq of the last call's snapshot,
                         \* and its two sides where they are recorded
    consumed             \* the total size of the snapshots handed in so far

bookVars ==
    <<symbol_, config_, cdc_callback_, current_snapshot_, previous_snapshot_,
      message_count_, initialized_>>

VARIABLES
    orderbooks_,         \* symbol -> the OrderBook the map owns for it, 0: no entry
    orderbooks_mutex_,   \* [writer: the thread holding it exclusively, or 0;
                         \*  readers: the threads holding it shared]
    constructed,         \* symbol -> the number of OrderBooks constructed for it
    pc,                  \* thread -> where it is in get_or_create_orderbook
    symbol,              \* thread -> the argument of its call
    returned,            \* the (symbol, OrderBook) pairs returned to callers
    tracked,             \* thread -> what get_tracked_symbols last returned to it
    lookups              \* the number of calls made so far

registryVars ==
    <<orderbooks_, orderbooks_mutex_, constructed, pc, symbol, returned,
      tracked, lookups>>

VARIABLES
    inside,              \* thread -> where it is in OrderBookManager::process_snapshot
    orderbook,           \* thread -> the OrderBook its call got from the map, 0: none
    stats_,              \* ProcessingStats: messages_processed,
                         \* processing_errors and symbol_message_counts
    message_counts,      \* OrderBook -> its message_count_
    loaded,              \* thread -> the message_count_ its ++ has read
    reached              \* the number of calls that got to an OrderBook

managerVars == <<inside, orderbook, stats_, message_counts, loaded, reached>>

VARIABLES
    json_config,         \* MessageFactory::config_ (ProcessorConfig::json_config)
    topic_config,        \* MessageRouter::config_ (ProcessorConfig::topic_config)
    depth_levels,        \* the depths to project (ProcessorConfig::depth_levels)
    hasher_,             \* std::hash<std::string>, as a function of the symbol
    snapshot,            \* the snapshot handed to the MessageFactory
    result,              \* what create_multi_depth_json returned: depth -> JSON
    routed               \* the KafkaMessages the MessageRouter returned last

configVars == <<json_config, topic_config, depth_levels, hasher_>>

factoryVars == <<snapshot, result>>

VARIABLES
    msg,                 \* the snapshot handed to MarketDepthProcessor::process_snapshot
    success,             \* what that call returned: "true", "false", or "none"
    metrics_,            \* PerformanceMetrics: the counters
    produced             \* the messages rd_kafka_produce accepted, in order

publishVars == <<msg, success, metrics_, produced>>

VARIABLES
    consumer,            \* KafkaConsumer: "none", "created" or "subscribed"
    producer,            \* TRUE when the KafkaProducer is initialised
    message_factory_,    \* TRUE when message_factory_ and message_router_ are set
    enable_statistics,   \* ProcessorConfig::enable_statistics
    running_,
    should_stop_,
    stats_thread_,       \* "none": not joinable; the position of the thread in
                         \* stats_thread(): "test", "sleep"; "finished"
    at,                  \* context -> its position in start_processing or
                         \* stop_processing; context 0 is the main thread
    max_runtime_s,       \* the argument of start_processing
    start_time,          \* the local of start_processing
    last_flush_time_,
    polled,              \* the number of polls that returned something
    received,            \* the kind of what a poll last returned, "none"
                         \* before any poll returned something
    flushed,             \* the length of the producer's queue when
                         \* rd_kafka_flush was last called
    now                  \* the clock

lifecycleVars ==
    <<consumer, producer, message_factory_, enable_statistics, running_,
      should_stop_, stats_thread_, at, max_runtime_s, start_time,
      last_flush_time_, polled, received, flushed, now>>

VARIABLES
    total_processing_time_us,
    max_processing_time_us,
    min_processing_time_us,
    update,              \* thread -> its call of update_processing_time: the
                         \* position in it, the argument and the two locals
    submitted,           \* the arguments of the calls made, in order
    overlapped           \* TRUE once a call began while another was under way

timingVars ==
    <<total_processing_time_us, max_processing_time_us, min_processing_time_us,
      update, submitted, overlapped>>

VARIABLES
    worker,              \* the worker in an iteration of processing_loop: its
                         \* position and the local success
    stats                \* the statistics thread in print_statistics: its
                         \* position, what it has read and the symbols its
                         \* loop over symbol_message_counts has visited

statisticsVars == <<worker, stats>>

metricsSide == <<timingVars, statisticsVars>>

vars ==
    <<bookVars, delivered, ret, arg, consumed, registryVars, managerVars,
      configVars, factoryVars, routed, publishVars, lifecycleVars, metricsSide>>

\* The inner loop of process_price_levels: the level aggregated from the
\* orders of one input level.
RECURSIVE AggregateOrders(_, _)
AggregateOrders(price_level, items) ==
    IF items = <<>> THEN price_level
    ELSE LET order == Head(items)
             next  == IF order.present
                      THEN [price_level EXCEPT !.quantity = @ + order.qty,
                                               !.num_orders = @ + 1]
                      ELSE price_level
         IN  AggregateOrders(next, Tail(items))

\* One iteration of the outer loop of process_price_levels.
ProcessLevel(map, level) ==
    IF ~level.present THEN map
    ELSE LET fresh == PriceLevel(level.price, 0, 0)
             price_level == IF level.orders.present
                            THEN AggregateOrders(fresh, level.orders.items)
                            ELSE fresh
         IN  MapPut(map, price_level.price, price_level)

\* Variant of process_price_levels whose loop does not test
\* max_price_levels.
RECURSIVE process_price_levels_uncapped(_, _, _, _)
process_price_levels_uncapped(map, levels, i, max_price_levels) ==
    IF i < Len(levels)
    THEN process_price_levels_uncapped(ProcessLevel(map, levels[i + 1]), levels,
                                       i + 1, max_price_levels)
    ELSE map

\* process_price_levels: the side's map after the loop has run from index i
\* (counted from 0, as in the code) under the configured max_price_levels.
RECURSIVE process_price_levels(_, _, _, _)
process_price_levels(map, levels, i, max_price_levels) ==
    IF i < Len(levels) /\ i < max_price_levels
    THEN process_price_levels(ProcessLevel(map, levels[i + 1]), levels, i + 1,
                              max_price_levels)
    ELSE map

\* emit_cdc_event: the event handed to the callback.
CDCEvent(type, side, level, sequence) ==
    [symbol |-> symbol_, side |-> side, event_type |-> type, level |-> level,
     sequence |-> sequence, timestamp_us |-> get_timestamp_us]

\* First loop of generate_cdc_events, over the keys of old_levels in order.
RECURSIVE RemovedEvents(_, _, _, _, _)
RemovedEvents(keys, old_levels, new_levels, side, sequence) ==
    IF keys = <<>> THEN <<>>
    ELSE LET price == Head(keys)
             here  == IF price \notin DOMAIN new_levels
                      THEN <<CDCEvent(LevelRemoved, side, old_levels[price], sequence)>>
                      ELSE <<>>
         IN  here \o RemovedEvents(Tail(keys), old_levels, new_levels, side, sequence)

\* Variant of AddedModifiedEvents whose LevelModified carries old_it->second.
RECURSIVE AddedModifiedEventsOld(_, _, _, _, _)
AddedModifiedEventsOld(keys, old_levels, new_levels, side, sequence) ==
    IF keys = <<>> THEN <<>>
    ELSE LET price == Head(keys)
             here  == IF price \notin DOMAIN old_levels
                      THEN <<CDCEvent(LevelAdded, side, new_levels[price], sequence)>>
                      ELSE IF LevelNe(old_levels[price], new_levels[price])
                      THEN <<CDCEvent(LevelModified, side, old_levels[price], sequence)>>
                      ELSE <<>>
         IN  here \o AddedModifiedEventsOld(Tail(keys), old_levels, new_levels, side, sequence)

\* Second loop of generate_cdc_events, over the keys of new_levels in order.
RECURSIVE AddedModifiedEvents(_, _, _, _, _)
AddedModifiedEvents(keys, old_levels, new_levels, side, sequence) ==
    IF keys = <<>> THEN <<>>
    ELSE LET price == Head(keys)
             here  == IF price \notin DOMAIN old_levels
                      THEN <<CDCEvent(LevelAdded, side, new_levels[price], sequence)>>
                      ELSE IF LevelNe(old_levels[price], new_levels[price])
                      THEN <<CDCEvent(LevelModified, side, new_levels[price], sequence)>>
                      ELSE <<>>
         IN  here \o AddedModifiedEvents(Tail(keys), old_levels, new_levels, side, sequence)

\* generate_cdc_events: both overloads have the same body; the maps they take
\* differ in their comparator, which fixes the iteration order.
generate_cdc_events(old_levels, new_levels, side, sequence) ==
    RemovedEvents(IterKeys(side, DOMAIN old_levels), old_levels, new_levels, side, sequence)
    \o AddedModifiedEvents(IterKeys(side, DOMAIN new_levels), old_levels, new_levels, side, sequence)

\* The symbol check of process_snapshot: a snapshot without a symbol passes.
SymbolRejected(sym) == sym # NoSymbol /\ sym # symbol_

\* Variant of StoresPrevious that does not look at enable_cdc.
StoresPreviousAlways == initialized_

\* The condition under which previous_snapshot_ is overwritten.
StoresPrevious == initialized_ /\ config_.enable_cdc

\* Variant of GeneratesCdc that does not look at initialized_.
GeneratesCdcUninitialized == config_.enable_cdc /\ cdc_callback_

\* The condition under which CDC events are generated.
GeneratesCdc == initialized_ /\ config_.enable_cdc /\ cdc_callback_

\* What process_snapshot reads of the body of its input: the trade fields and
\* the two maps process_price_levels builds from the sides (a null side is
\* not processed, the cleared map stays empty).
ReadBody(body, max_price_levels) ==
    [last_trade_price |-> body.trade.price,
     last_trade_quantity |-> body.trade.qty,
     bid_levels |-> IF body.buy_side.present
                    THEN process_price_levels(EmptyMap, body.buy_side.levels, 0,
                                              max_price_levels)
                    ELSE EmptyMap,
     ask_levels |-> IF body.sell_side.present
                    THEN process_price_levels(EmptyMap, body.sell_side.levels, 0,
                                              max_price_levels)
                    ELSE EmptyMap,
     size |-> BodySize(body)]

\* ReadBody over the inputs of size at most n, tabulated for each configured
\* max_price_levels. Inputs that read the same lead to the same step and are
\* taken together.
BodiesRead ==
    [cap \in Caps |->
        [n \in 0..MaxSnapshot |-> {ReadBody(body, cap) : body \in InBodies(n)}]]

\* Variant of RebuiltSnapshot that does not assign the sequence.
RebuiltSnapshotNoSeq(seq, read) ==
    [symbol |-> current_snapshot_.symbol,
     sequence |-> current_snapshot_.sequence,
     timestamp_us |-> get_timestamp_us,
     last_trade_price |-> read.last_trade_price,
     last_trade_quantity |-> read.last_trade_quantity,
     bid_levels |-> read.bid_levels,
     ask_levels |-> read.ask_levels]

\* Variant of RebuiltSnapshot in which the sequence never decreases.
RebuiltSnapshotHighestSeq(seq, read) ==
    [symbol |-> current_snapshot_.symbol,
     sequence |-> IF seq > current_snapshot_.sequence THEN seq
                  ELSE current_snapshot_.sequence,
     timestamp_us |-> get_timestamp_us,
     last_trade_price |-> read.last_trade_price,
     last_trade_quantity |-> read.last_trade_quantity,
     bid_levels |-> read.bid_levels,
     ask_levels |-> read.ask_levels]

\* current_snapshot_ as rebuilt from the input.
RebuiltSnapshot(seq, read) ==
    [symbol |-> current_snapshot_.symbol,
     sequence |-> seq,
     timestamp_us |-> get_timestamp_us,
     last_trade_price |-> read.last_trade_price,
     last_trade_quantity |-> read.last_trade_quantity,
     bid_levels |-> read.bid_levels,
     ask_levels |-> read.ask_levels]

\* Variant of Reject in which the message is counted before it is validated.
RejectCounted ==
    /\ ret' = "false"
    /\ delivered' = <<>>
    /\ message_count_' = message_count_ + 1
    /\ UNCHANGED <<symbol_, config_, cdc_callback_, current_snapshot_,
                   previous_snapshot_, initialized_>>

\* The two early returns of process_snapshot: nothing has been written yet.
Reject ==
    /\ ret' = "false"
    /\ delivered' = <<>>
    /\ UNCHANGED bookVars

\* process_snapshot(nullptr)
ProcessNull ==
    /\ consumed < MaxInput
    /\ consumed' = consumed + 1
    /\ arg' = [symbol |-> NoSymbol, seq |-> 0, null |-> TRUE]
    /\ Reject

\* process_snapshot after its two checks, on what it reads of the input.
AcceptSnapshot(seq, read) ==
    LET previous == IF StoresPrevious THEN current_snapshot_
                    ELSE previous_snapshot_
        current  == RebuiltSnapshot(seq, read)
    IN  /\ previous_snapshot_' = previous
        /\ current_snapshot_' = current
        /\ message_count_' = message_count_ + 1
        /\ delivered' =
             IF GeneratesCdc
             THEN generate_cdc_events(previous.bid_levels,
                                      current.bid_levels, Buy, seq)
                  \o generate_cdc_events(previous.ask_levels,
                                         current.ask_levels, Sell, seq)
             ELSE <<>>
        /\ initialized_' = TRUE
        /\ ret' = "true"
        /\ consumed' = consumed + 1 + read.size
        /\ UNCHANGED <<symbol_, config_, cdc_callback_>>

\* process_snapshot(snapshot), snapshot not null
ProcessSnapshot ==
    /\ consumed < MaxInput
    /\ \E sym \in InSymbols, seq \in Seqs :
          /\ arg' = [symbol |-> sym, seq |-> seq, null |-> FALSE]
          /\ IF SymbolRejected(sym)
             THEN /\ consumed' = consumed + 1
                  /\ Reject
             ELSE \E read \in BodiesRead[config_.max_price_levels]
                                            [Min(MaxSnapshot, MaxInput - consumed - 1)] :
                    AcceptSnapshot(seq, read)

\* The levels of the snapshots whose sides are recorded: null, a price with
\* one order, and another price without orders.
RecordedLevels ==
    {NullLevel,
     [present |-> TRUE, price |-> 1,
      orders |-> [present |-> TRUE, items |-> <<[present |-> TRUE, qty |-> 1]>>]],
     [present |-> TRUE, price |-> 2, orders |-> NullOrders]}

\* The snapshots whose sides are recorded: a buy side of up to three levels,
\* one more than the largest cap, and a sell side that is null or has two.
RecordedBodies ==
    {[buy_side |-> b, sell_side |-> s, trade |-> t] :
        b \in {NullSide} \cup {[present |-> TRUE, levels |-> v] :
                                   v \in SeqsUpTo(RecordedLevels, 3)},
        s \in {NullSide,
               [present |-> TRUE,
                levels |-> <<[present |-> TRUE, price |-> 2, orders |-> NullOrders],
                             [present |-> TRUE, price |-> 1, orders |-> NullOrders]>>]},
        t \in Trades}

\* process_snapshot(snapshot) for a snapshot of the book's symbol, with the
\* two sides of the snapshot recorded in arg.
ProcessRecorded ==
    /\ message_count_ < MaxRecorded
    /\ \E body \in RecordedBodies :
          /\ arg' = [symbol |-> symbol_, seq |-> 1, null |-> FALSE,
                     buy_side |-> body.buy_side, sell_side |-> body.sell_side]
          /\ AcceptSnapshot(1, ReadBody(body, config_.max_price_levels))

\* OrderBook(symbol, config, cdc_callback)
BookInit ==
    /\ symbol_ = "ABC"
    /\ config_ \in [enable_cdc : BOOLEAN, max_price_levels : Caps]
    /\ cdc_callback_ \in BOOLEAN
    /\ current_snapshot_ = EmptySnapshot(symbol_)
    /\ previous_snapshot_ = EmptySnapshot(symbol_)
    /\ message_count_ = 0
    /\ initialized_ = FALSE
    /\ delivered = <<>>
    /\ ret = "none"
    /\ arg = [symbol |-> NoSymbol, seq |-> 0, null |-> TRUE]
    /\ consumed = 0

(***************************************************************************)
(* OrderBookManager (src/src/OrderBook.cpp): the map of the order books    *)
(***************************************************************************)
Threads == 1..NumThreads

\* The OrderBooks that can be constructed, by number.
OrderBooks == 1..(2 * Cardinality(Symbols) + 1)

\* The OrderBooks are numbered in the order of their construction.
NewOrderBook ==
    1 + Cardinality({s \in Symbols : constructed[s] > 0})
      + Cardinality({s \in Symbols : constructed[s] > 1})

\* OrderBookManager(config, global_cdc_callback): an empty map.
RegistryInit ==
    /\ orderbooks_ = [s \in Symbols |-> 0]
    /\ orderbooks_mutex_ = [writer |-> 0, readers |-> {}]
    /\ constructed = [s \in Symbols |-> 0]
    /\ pc = [t \in Threads |-> "idle"]
    /\ symbol = [t \in Threads |-> "ABC"]
    /\ returned = {}
    /\ tracked = [t \in Threads |-> {}]
    /\ lookups = 0

\* A thread calls get_or_create_orderbook(s).
Call(t) ==
    /\ pc[t] = "idle"
    /\ lookups < MaxLookups
    /\ lookups' = lookups + 1
    /\ \E s \in Symbols : symbol' = [symbol EXCEPT ![t] = s]
    /\ pc' = [pc EXCEPT ![t] = "shared_lock"]
    /\ UNCHANGED <<orderbooks_, orderbooks_mutex_, constructed, returned, tracked>>

\* std::shared_lock lock(orderbooks_mutex_)
SharedLock(t) ==
    /\ pc[t] = "shared_lock"
    /\ orderbooks_mutex_.writer = 0
    /\ orderbooks_mutex_' = [orderbooks_mutex_ EXCEPT !.readers = @ \cup {t}]
    /\ pc' = [pc EXCEPT ![t] = "find"]
    /\ UNCHANGED <<orderbooks_, constructed, symbol, returned, tracked, lookups>>

\* The lookup under the shared lock; the lock is released when the block is
\* left, with the OrderBook found or without.
Find(t) ==
    /\ pc[t] = "find"
    /\ orderbooks_mutex_' = [orderbooks_mutex_ EXCEPT !.readers = @ \ {t}]
    /\ IF orderbooks_[symbol[t]] # 0
       THEN /\ returned' = returned \cup {<<symbol[t], orderbooks_[symbol[t]]>>}
            /\ pc' = [pc EXCEPT ![t] = "idle"]
       ELSE /\ returned' = returned
            /\ pc' = [pc EXCEPT ![t] = "unique_lock"]
    /\ UNCHANGED <<orderbooks_, constructed, symbol, tracked, lookups>>

\* std::unique_lock lock(orderbooks_mutex_)
UniqueLock(t) ==
    /\ pc[t] = "unique_lock"
    /\ orderbooks_mutex_.writer = 0
    /\ orderbooks_mutex_.readers = {}
    /\ orderbooks_mutex_' = [orderbooks_mutex_ EXCEPT !.writer = t]
    /\ pc' = [pc EXCEPT ![t] = "double_check"]
    /\ UNCHANGED <<orderbooks_, constructed, symbol, returned, tracked, lookups>>

\* Variant of FoundAgain without the second lookup.
FoundAgainNever(t) == FALSE

\* The second lookup, under the unique lock.
FoundAgain(t) == orderbooks_[symbol[t]] # 0

\* The double check and, when the symbol is still absent, the construction
\* of its OrderBook and its insertion; the lock is released on return.
DoubleCheck(t) ==
    /\ pc[t] = "double_check"
    /\ IF FoundAgain(t)
       THEN /\ returned' = returned \cup {<<symbol[t], orderbooks_[symbol[t]]>>}
            /\ UNCHANGED <<orderbooks_, constructed>>
       ELSE /\ constructed' = [constructed EXCEPT ![symbol[t]] = @ + 1]
            /\ orderbooks_' = [orderbooks_ EXCEPT ![symbol[t]] = NewOrderBook]
            /\ returned' = returned \cup {<<symbol[t], NewOrderBook>>}
    /\ orderbooks_mutex_' = [orderbooks_mutex_ EXCEPT !.writer = 0]
    /\ pc' = [pc EXCEPT ![t] = "idle"]
    /\ UNCHANGED <<symbol, tracked, lookups>>

\* get_tracked_symbols: the keys of the map, copied under a shared lock.
GetTrackedSymbols(t) ==
    /\ pc[t] = "idle"
    /\ lookups < MaxLookups
    /\ lookups' = lookups + 1
    /\ orderbooks_mutex_.writer = 0
    /\ tracked' = [tracked EXCEPT ![t] = {s \in Symbols : orderbooks_[s] # 0}]
    /\ UNCHANGED <<orderbooks_, orderbooks_mutex_, constructed, pc, symbol, returned>>

(***************************************************************************)
(* Strings: sequences of characters                                        *)
(***************************************************************************)
\* "market_depth_snapshot_"
MarketDepthSnapshot_ ==
    <<"m", "a", "r", "k", "e", "t", "_", "d", "e", "p", "t", "h", "_",
      "s", "n", "a", "p", "s", "h", "o", "t", "_">>

\* "market_depth_cdc"
MarketDepthCdc ==
    <<"m", "a", "r", "k", "e", "t", "_", "d", "e", "p", "t", "h", "_",
      "c", "d", "c">>

\* "market_depth."
MarketDepthDot ==
    <<"m", "a", "r", "k", "e", "t", "_", "d", "e", "p", "t", "h", ".">>

\* The characters of a symbol.
Chars(sym) ==
    IF sym = "ABC" THEN <<"A", "B", "C">>
    ELSE IF sym = "XYZ" THEN <<"X", "Y", "Z">>
    ELSE <<>>

Digit(n) == <<"0", "1", "2", "3", "4", "5", "6", "7", "8", "9">>[n + 1]

\* std::to_string of an unsigned number.
RECURSIVE to_string(_)
to_string(n) ==
    IF n < 10 THEN <<Digit(n)>>
    ELSE Append(to_string(n \div 10), Digit(n % 10))

(***************************************************************************)
(* MessageFactory (src/src/MessageFactory.cpp): the JSON projections       *)
(***************************************************************************)
\* TopicConfig(): the defaults.
DefaultTopicConfig ==
    [snapshot_topic_prefix |-> MarketDepthSnapshot_, cdc_topic |-> MarketDepthCdc,
     use_depth_in_topic |-> TRUE, use_symbol_partitioning |-> TRUE,
     num_partitions |-> 16]

\* The JsonConfigs a MessageFactory is constructed with.
JsonConfigs ==
    [price_decimals : {4}, quantity_decimals : {2},
     include_timestamp : BOOLEAN, include_sequence : BOOLEAN,
     compact_format : BOOLEAN, exchange_name : {"CXA"}]

\* The prices of the levels of the snapshots handed to the MessageFactory.
FactoryPrices == {1, 2, 3}

\* The depths asked of the MessageFactory, and the vectors of depths.
FactoryDepths == {0, 1, 2, 3}
DepthVectors == SeqsUpTo(FactoryDepths, 2)

\* The maps of levels: any set of the prices, one level at each.
LevelMaps == {[p \in K |-> PriceLevel(p, p, 1)] : K \in SUBSET FactoryPrices}

\* The snapshots handed to the MessageFactory.
FactorySnapshots ==
    [symbol : {"ABC"}, sequence : {1}, timestamp_us : {get_timestamp_us},
     bid_levels : LevelMaps, ask_levels : LevelMaps,
     last_trade_price : {0, 3}, last_trade_quantity : {1}]

RECURSIVE Pow10(_)
Pow10(n) == IF n = 0 THEN 1 ELSE 10 * Pow10(n - 1)

\* The text of a number scaled by 10^decimals, printed with that many
\* decimals: the digits before the point and the digits after it.
Fixed(scaled, decimals) ==
    [whole |-> scaled \div Pow10(decimals), frac |-> scaled % Pow10(decimals),
     decimals |-> decimals]

format_price(price_scaled) == Fixed(price_scaled, json_config.price_decimals)

format_quantity(quantity_scaled) ==
    Fixed(quantity_scaled, json_config.quantity_decimals)

side_to_string(side) ==
    IF side = Buy THEN "bid" ELSE IF side = Sell THEN "ask" ELSE "unknown"

\* The JSON object of one level. The exchanges are an array when the level
\* has some, and the configured name as one string when it has none.
price_level_to_json(level, side, sym) ==
    [symbol |-> sym,
     side |-> side_to_string(side),
     price |-> format_price(level.price),
     quantity |-> format_quantity(level.quantity),
     number_of_orders |-> level.num_orders,
     exchanges |-> IF level.exchanges # <<>>
                   THEN [array |-> TRUE, items |-> level.exchanges]
                   ELSE [array |-> FALSE, items |-> <<json_config.exchange_name>>]]

\* The fields every message starts with; a field left out has present FALSE.
add_common_fields(sym, sequence, timestamp) ==
    [symbol |-> sym,
     sequence |-> IF json_config.include_sequence
                  THEN [present |-> TRUE, value |-> sequence]
                  ELSE [present |-> FALSE, value |-> 0],
     timestamp |-> IF json_config.include_timestamp
                   THEN [present |-> TRUE, value |-> timestamp]
                   ELSE [present |-> FALSE, value |-> 0],
     timestamp_iso |-> IF json_config.include_timestamp
                       THEN [present |-> TRUE,
                             seconds |-> (timestamp \div 1000) \div 1000,
                             millis |-> (timestamp \div 1000) % 1000]
                       ELSE [present |-> FALSE, seconds |-> 0, millis |-> 0]]

\* The first depth levels of a map in its iteration order, or all of them
\* when it has fewer.
TopLevels(side, levels, depth) ==
    LET keys == IterKeys(side, DOMAIN levels)
    IN  [i \in 1..Min(depth, Len(keys)) |-> levels[keys[i]]]

\* Variant of get_top_bids that does not stop after depth levels.
get_top_bids_all(snap, depth) ==
    TopLevels(Buy, snap.bid_levels, Cardinality(DOMAIN snap.bid_levels))

get_top_bids(snap, depth) == TopLevels(Buy, snap.bid_levels, depth)

get_top_asks(snap, depth) == TopLevels(Sell, snap.ask_levels, depth)

has_sufficient_depth(snap, min_levels) ==
    /\ Cardinality(DOMAIN snap.bid_levels) >= min_levels
    /\ Cardinality(DOMAIN snap.ask_levels) >= min_levels

\* a - b in unsigned arithmetic: when b > a the result wraps, and is
\* 2^64 minus the magnitude.
UnsignedDifference(a, b) ==
    IF a >= b THEN [wrapped |-> FALSE, magnitude |-> a - b]
    ELSE [wrapped |-> TRUE, magnitude |-> b - a]

\* market_stats of a projection; spread and mid_price are present when both
\* sides of the projection have a level.
MarketStats(snap, depth, top_bids, top_asks) ==
    LET both == top_bids # <<>> /\ top_asks # <<>>
        ask  == IF both THEN top_asks[1].price ELSE 0
        bid  == IF both THEN top_bids[1].price ELSE 0
        diff == UnsignedDifference(ask, bid)
    IN  [total_bid_levels |-> Cardinality(DOMAIN snap.bid_levels),
         total_ask_levels |-> Cardinality(DOMAIN snap.ask_levels),
         has_sufficient_depth |-> has_sufficient_depth(snap, depth),
         spread |-> [present |-> both, wrapped |-> diff.wrapped,
                     text |-> format_price(diff.magnitude)],
         mid_price |-> [present |-> both,
                        text |-> format_price((ask + bid) \div 2)]]

\* create_snapshot_json: the JSON object and the indentation it is dumped
\* with (-1: compact).
create_snapshot_json(snap, depth) ==
    LET top_bids == get_top_bids(snap, depth)
        top_asks == get_top_asks(snap, depth)
    IN  [indent |-> IF json_config.compact_format THEN -1 ELSE 2,
         common |-> add_common_fields(snap.symbol, snap.sequence, snap.timestamp_us),
         message_type |-> "snapshot",
         depth |-> depth,
         bids |-> [i \in 1..Len(top_bids) |->
                       price_level_to_json(top_bids[i], Buy, snap.symbol)],
         asks |-> [i \in 1..Len(top_asks) |->
                       price_level_to_json(top_asks[i], Sell, snap.symbol)],
         last_trade |->
             [present |-> snap.last_trade_price > 0,
              price |-> format_price(snap.last_trade_price),
              quantity |-> format_quantity(snap.last_trade_quantity)],
         market_stats |-> MarketStats(snap, depth, top_bids, top_asks)]

\* An empty std::map<uint32_t, std::string>.
EmptyResult == [d \in {} |-> create_snapshot_json(EmptySnapshot("ABC"), 0)]

\* create_multi_depth_json, from the i-th depth on.
RECURSIVE create_multi_depth_json(_, _, _, _)
create_multi_depth_json(res, snap, depths, i) ==
    IF i > Len(depths) THEN res
    ELSE LET depth == depths[i]
         IN  IF /\ Cardinality(DOMAIN snap.bid_levels) >= depth
                /\ Cardinality(DOMAIN snap.ask_levels) >= depth
             THEN create_multi_depth_json(
                      [d \in (DOMAIN res) \cup {depth} |->
                           IF d = depth THEN create_snapshot_json(snap, depth)
                           ELSE res[d]],
                      snap, depths, i + 1)
             ELSE create_multi_depth_json(res, snap, depths, i + 1)

(***************************************************************************)
(* MessageRouter (src/src/MessageFactory.cpp): topic, key and partition    *)
(***************************************************************************)
\* The TopicConfigs a MessageRouter is constructed with.
TopicConfigs ==
    [snapshot_topic_prefix : {MarketDepthSnapshot_}, cdc_topic : {MarketDepthCdc},
     use_depth_in_topic : BOOLEAN, use_symbol_partitioning : BOOLEAN,
     num_partitions : {2, 3}]

\* std::hash<std::string> is fixed by the build: any function of the string.
Hashers == [Symbols -> {3, 8}]

\* The depths and payloads handed to the MessageRouter.
RouteDepths == {5, 10}
Payloads == {"{}", "[]"}

\* static_cast<uint32_t>(-1): the partition is left to the message bus.
PartitionUnassigned == -1

KafkaMessage(t, k, p, part) ==
    [topic |-> t, key |-> k, payload |-> p, partition |-> part]

\* Variant of calculate_partition without the reduction modulo num_partitions.
calculate_partition_unreduced(sym) == hasher_[sym]

calculate_partition(sym) == hasher_[sym] % topic_config.num_partitions

\* substr(0, length() - 1): the string without its last character.
WithoutLast(str) == SubSeq(str, 1, Len(str) - 1)

route_snapshot(sym, depth, json_payload) ==
    LET topic == IF topic_config.use_depth_in_topic
                 THEN topic_config.snapshot_topic_prefix \o to_string(depth)
                 ELSE WithoutLast(topic_config.snapshot_topic_prefix)
        partition == IF topic_config.use_symbol_partitioning
                     THEN calculate_partition(sym)
                     ELSE PartitionUnassigned
    IN  KafkaMessage(topic, sym, json_payload, partition)

route_cdc(sym, json_payload) ==
    LET partition == IF topic_config.use_symbol_partitioning
                     THEN calculate_partition(sym)
                     ELSE PartitionUnassigned
    IN  KafkaMessage(topic_config.cdc_topic, sym, json_payload, partition)

\* A call of route_snapshot; the call and what it returned are kept.
RouteSnapshot ==
    /\ Len(routed) < MaxRouted
    /\ \E sym \in Symbols, depth \in RouteDepths, payload \in Payloads :
          routed' = Append(routed,
                           [kind |-> "snapshot", symbol |-> sym, depth |-> depth,
                            payload |-> payload,
                            message |-> route_snapshot(sym, depth, payload)])
    /\ UNCHANGED <<configVars, factoryVars, publishVars, lifecycleVars>>

\* A call of route_cdc; the depth of the record is not an argument of it.
RouteCdc ==
    /\ Len(routed) < MaxRouted
    /\ \E sym \in Symbols, payload \in Payloads :
          routed' = Append(routed,
                           [kind |-> "cdc", symbol |-> sym, depth |-> 0,
                            payload |-> payload,
                            message |-> route_cdc(sym, payload)])
    /\ UNCHANGED <<configVars, factoryVars, publishVars, lifecycleVars>>

(***************************************************************************)
(* MarketDepthProcessor (src/src/MarketDepthProcessor.cpp): publishing     *)
(***************************************************************************)
\* The input levels: null, price 0, no orders, and two prices with an order.
OneOrder == [present |-> TRUE, items |-> <<[present |-> TRUE, qty |-> 1]>>]

ProcessorLevels ==
    {NullLevel,
     [present |-> TRUE, price |-> 0, orders |-> OneOrder],
     [present |-> TRUE, price |-> 1, orders |-> NullOrders],
     [present |-> TRUE, price |-> 1, orders |-> OneOrder],
     [present |-> TRUE, price |-> 2, orders |-> OneOrder]}

\* buy_side() and sell_side() of the input: null, or a vector.
ProcessorBuySides ==
    {NullSide} \cup {[present |-> TRUE, levels |-> v] : v \in SeqsUpTo(ProcessorLevels, 3)}

ProcessorSellSides ==
    {NullSide} \cup {[present |-> TRUE, levels |-> v] : v \in SeqsUpTo(ProcessorLevels, 2)}

\* The snapshots handed to the processor.
ProcessorSnapshots ==
    [null : {FALSE}, symbol : InSymbols, seq : {1},
     recent_trade_price : {3}, recent_trade_qty : {1},
     buy_side : ProcessorBuySides, sell_side : ProcessorSellSides]

\* No snapshot.
NullSnapshot ==
    [null |-> TRUE, symbol |-> NoSymbol, seq |-> 0,
     recent_trade_price |-> 0, recent_trade_qty |-> 0,
     buy_side |-> NullSide, sell_side |-> NullSide]

\* The vectors of depths the processor is configured with.
ProcessorDepths == {<<1>>, <<2>>, <<1, 2>>, <<2, 2>>}

\* The processor's clock.
get_timestamp == 1

\* PerformanceMetrics::reset()
ResetMetrics ==
    [messages_consumed |-> 0, messages_processed |-> 0, messages_published |-> 0,
     processing_errors |-> 0, kafka_errors |-> 0,
     symbol_message_counts |-> [sym \in Symbols |-> 0]]

\* The sum of the qty() of the orders of a level that are not null, and
\* their number.
RECURSIVE SumOrders(_, _, _, _)
SumOrders(quantity, num_orders, items, j) ==
    IF j > Len(items) THEN <<quantity, num_orders>>
    ELSE IF items[j].present
         THEN SumOrders(quantity + items[j].qty, num_orders + 1, items, j + 1)
         ELSE SumOrders(quantity, num_orders, items, j + 1)

convert_price_level(fb_level) ==
    LET sums == IF fb_level.orders.present
                THEN SumOrders(0, 0, fb_level.orders.items, 1)
                ELSE <<0, 0>>
    IN  [price |-> fb_level.price, quantity |-> sums[1], num_orders |-> sums[2],
         exchanges |-> <<json_config.exchange_name>>]

\* The loop that fills one side of the internal snapshot: it goes through
\* the input vector from index i on while count < depth, and stores and
\* counts every level with a price and a quantity.
RECURSIVE ConvertLevels(_, _, _, _, _)
ConvertLevels(map, count, levels, i, depth) ==
    IF ~(i <= Len(levels) /\ count < depth) THEN map
    ELSE IF ~levels[i].present
         THEN ConvertLevels(map, count, levels, i + 1, depth)
         ELSE LET level == convert_price_level(levels[i])
              IN  IF level.price > 0 /\ level.quantity > 0
                  THEN ConvertLevels(MapPut(map, level.price, level),
                                     count + 1, levels, i + 1, depth)
                  ELSE ConvertLevels(map, count, levels, i + 1, depth)

\* The internal snapshot publish_snapshots builds for one depth.
InternalSnapshot(sym, snap, depth) ==
    [symbol |-> sym, sequence |-> snap.seq, timestamp_us |-> get_timestamp,
     bid_levels |-> IF snap.buy_side.present
                    THEN ConvertLevels(EmptyMap, 0, snap.buy_side.levels, 1, depth)
                    ELSE EmptyMap,
     ask_levels |-> IF snap.sell_side.present
                    THEN ConvertLevels(EmptyMap, 0, snap.sell_side.levels, 1, depth)
                    ELSE EmptyMap,
     last_trade_price |-> snap.recent_trade_price,
     last_trade_quantity |-> snap.recent_trade_qty]

\* "Only publish if we have sufficient data"
SufficientData(internal_snapshot, depth) ==
    /\ Cardinality(DOMAIN internal_snapshot.bid_levels) >= depth
    /\ Cardinality(DOMAIN internal_snapshot.ask_levels) >= depth

\* The message publish_snapshots hands to KafkaPush for one depth.
PublishedMessage(sym, internal_snapshot, depth) ==
    [topic |-> MarketDepthDot \o Chars(sym),
     partition |-> calculate_partition(sym),
     payload |-> create_snapshot_json(internal_snapshot, depth)]

\* What can happen to the message of one depth: rd_kafka_produce accepts
\* it, or refuses it, or building it throws a std::exception.
Accepted == "accepted"
Refused == "refused"
Throws == "throws"

\* publish_snapshots from the i-th depth on. accepted[i] tells what happens
\* to the message of the i-th depth. KafkaPush logs a refusal and returns,
\* and messages_published is incremented either way. An exception leaves
\* the loop: it is caught at the end of publish_snapshots, which counts a
\* processing error and returns normally. The result is the queue of the
\* producer and the increments of the two counters.
RECURSIVE publish_snapshots(_, _, _, _, _, _)
publish_snapshots(queue, published, sym, snap, accepted, i) ==
    IF i > Len(depth_levels)
    THEN [queue |-> queue, published |-> published, errors |-> 0]
    ELSE LET depth == depth_levels[i]
             internal_snapshot == InternalSnapshot(sym, snap, depth)
         IN  IF SufficientData(internal_snapshot, depth)
             THEN IF accepted[i] = Throws
                  THEN [queue |-> queue, published |-> published, errors |-> 1]
                  ELSE publish_snapshots(
                           IF accepted[i] = Accepted
                           THEN Append(queue, PublishedMessage(sym, internal_snapshot, depth))
                           ELSE queue,
                           published + 1, sym, snap, accepted, i + 1)
             ELSE publish_snapshots(queue, published, sym, snap, accepted, i + 1)

\* The depths for which publish_snapshots has a message.
PublishingDepths(snap) ==
    {i \in 1..Len(depth_levels) :
        SufficientData(InternalSnapshot(snap.symbol, snap, depth_levels[i]),
                       depth_levels[i])}

\* What can happen to the messages of one snapshot.
Acceptances(snap) ==
    IF snap.null \/ snap.symbol = NoSymbol THEN {<<>>}
    ELSE [PublishingDepths(snap) -> {Accepted, Refused, Throws}]

\* MarketDepthProcessor::process_snapshot: false for a null snapshot or one
\* without a symbol; otherwise the snapshot is published and counted for
\* its symbol. The result, the metrics and the producer's queue after it.
process_snapshot(snap, accepted) ==
    IF snap.null \/ snap.symbol = NoSymbol
    THEN [success |-> FALSE, metrics |-> metrics_, queue |-> produced]
    ELSE LET out == publish_snapshots(produced, 0, snap.symbol, snap, accepted, 1)
         IN  [success |-> TRUE,
              metrics |-> [metrics_ EXCEPT
                              !.messages_published = @ + out.published,
                              !.processing_errors = @ + out.errors,
                              !.symbol_message_counts[snap.symbol] = @ + 1],
              queue |-> out.queue]

\* A call of process_snapshot. One snapshot is followed.
ProcessorProcessSnapshot ==
    /\ success = "none"
    /\ \E snap \in ProcessorSnapshots \cup {NullSnapshot} :
          \E accepted \in Acceptances(snap) :
              LET out == process_snapshot(snap, accepted)
              IN  /\ msg' = snap
                  /\ success' = IF out.success THEN "true" ELSE "false"
                  /\ metrics_' = out.metrics
                  /\ produced' = out.queue
    /\ UNCHANGED <<configVars, factoryVars, routed, lifecycleVars>>

\* No snapshot was handed to the processor yet.
PublishIdle ==
    /\ msg = NullSnapshot
    /\ success = "none"
    /\ metrics_ = ResetMetrics
    /\ produced = <<>>

(***************************************************************************)
(* PerformanceMetrics (src/include/MarketDepthProcessor.hpp): the          *)
(* processing times                                                        *)
(***************************************************************************)
\* A uint64_t is kept as an integer n near 0: n itself when n >= 0, and
\* 2^64 + n when n < 0. Sums of such integers are sums modulo 2^64.
UINT64_MAX == -1

\* a < b as unsigned 64-bit values.
Below(a, b) == IF (a < 0) = (b < 0) THEN a < b ELSE a >= 0

\* The times handed to update_processing_time.
Samples == {0, 1, 2, UINT64_MAX}

\* The threads that call update_processing_time.
Updaters == {"first", "second"}

\* No call under way.
NoCall == [at |-> "idle", time_us |-> 0, current_max |-> 0, current_min |-> 0]

\* PerformanceMetrics as constructed, no thread in update_processing_time.
TimingIdle ==
    /\ total_processing_time_us = 0
    /\ max_processing_time_us = 0
    /\ min_processing_time_us = UINT64_MAX
    /\ update = [t \in Updaters |-> NoCall]
    /\ submitted = <<>>
    /\ overlapped = FALSE

\* update_processing_time(time_us) is called.
UpdateCall(t) ==
    /\ update[t].at = "idle"
    /\ Len(submitted) < MaxSamples
    /\ \E time_us \in Samples :
          /\ update' = [update EXCEPT ![t] = [NoCall EXCEPT !.at = "add",
                                                            !.time_us = time_us]]
          /\ submitted' = Append(submitted, time_us)
    /\ overlapped' = (overlapped \/ \E u \in Updaters : update[u].at # "idle")
    /\ UNCHANGED <<total_processing_time_us, max_processing_time_us,
                   min_processing_time_us>>

\* total_processing_time_us += time_us
UpdateAdd(t) ==
    /\ update[t].at = "add"
    /\ total_processing_time_us' = total_processing_time_us + update[t].time_us
    /\ update' = [update EXCEPT ![t].at = "load_max"]
    /\ UNCHANGED <<max_processing_time_us, min_processing_time_us, submitted,
                   overlapped>>

\* current_max = max_processing_time_us.load()
UpdateLoadMax(t) ==
    /\ update[t].at = "load_max"
    /\ update' = [update EXCEPT ![t].current_max = max_processing_time_us,
                                ![t].at = "cas_max"]
    /\ UNCHANGED <<total_processing_time_us, max_processing_time_us,
                   min_processing_time_us, submitted, overlapped>>

\* Variant of UpdateCasMax that stores the time without comparing the
\* atomic with current_max.
UpdateStoreMax(t) ==
    /\ update[t].at = "cas_max"
    /\ IF Below(update[t].current_max, update[t].time_us)
       THEN max_processing_time_us' = update[t].time_us
       ELSE UNCHANGED max_processing_time_us
    /\ update' = [update EXCEPT ![t].at = "load_min"]
    /\ UNCHANGED <<total_processing_time_us, min_processing_time_us, submitted,
                   overlapped>>

\* One test of the first while loop. compare_exchange_weak stores time_us
\* when the atomic holds current_max, and may fail although it does; when it
\* fails current_max takes the value of the atomic and the loop goes on.
UpdateCasMax(t) ==
    /\ update[t].at = "cas_max"
    /\ IF Below(update[t].current_max, update[t].time_us)
       THEN \/ /\ max_processing_time_us = update[t].current_max
               /\ max_processing_time_us' = update[t].time_us
               /\ update' = [update EXCEPT ![t].at = "load_min"]
            \/ /\ update' = [update EXCEPT
                               ![t].current_max = max_processing_time_us]
               /\ UNCHANGED max_processing_time_us
       ELSE /\ update' = [update EXCEPT ![t].at = "load_min"]
            /\ UNCHANGED max_processing_time_us
    /\ UNCHANGED <<total_processing_time_us, min_processing_time_us, submitted,
                   overlapped>>

\* current_min = min_processing_time_us.load()
UpdateLoadMin(t) ==
    /\ update[t].at = "load_min"
    /\ update' = [update EXCEPT ![t].current_min = min_processing_time_us,
                                ![t].at = "cas_min"]
    /\ UNCHANGED <<total_processing_time_us, max_processing_time_us,
                   min_processing_time_us, submitted, overlapped>>

\* One test of the second while loop; the call returns when it is left.
UpdateCasMin(t) ==
    /\ update[t].at = "cas_min"
    /\ IF Below(update[t].time_us, update[t].current_min)
       THEN \/ /\ min_processing_time_us = update[t].current_min
               /\ min_processing_time_us' = update[t].time_us
               /\ update' = [update EXCEPT ![t] = NoCall]
            \/ /\ update' = [update EXCEPT
                               ![t].current_min = min_processing_time_us]
               /\ UNCHANGED min_processing_time_us
       ELSE /\ update' = [update EXCEPT ![t] = NoCall]
            /\ UNCHANGED min_processing_time_us
    /\ UNCHANGED <<total_processing_time_us, max_processing_time_us, submitted,
                   overlapped>>

(***************************************************************************)
(* MarketDepthProcessor: initialize, start_processing, stop_processing,    *)
(* processing_loop, stats_thread                                           *)
(***************************************************************************)
\* The main thread, and the other contexts that call stop_processing.
Main == "main"
Stoppers == {"other"}
Contexts == {Main} \cup Stoppers

\* What one poll of the consumer can return: nothing, the end of a
\* partition, an error, a message without payload, an envelope of another
\* type, a snapshot.
OneLevel(p) ==
    [present |-> TRUE,
     levels |-> <<[present |-> TRUE, price |-> p, orders |-> OneOrder]>>]

LoopSnapshots ==
    {[null |-> FALSE, symbol |-> sym, seq |-> 1,
      recent_trade_price |-> 3, recent_trade_qty |-> 1,
      buy_side |-> OneLevel(1), sell_side |-> OneLevel(2)] : sym \in {"ABC", NoSymbol}}

Polls ==
    {[kind |-> k, snapshot |-> NullSnapshot] :
         k \in {"none", "eof", "error", "empty", "other"}}
    \cup {[kind |-> "snapshot", snapshot |-> snap] : snap \in LoopSnapshots}

\* MarketDepthProcessor(config): nothing is initialised, nothing runs.
Created ==
    /\ consumer = "none"
    /\ producer = FALSE
    /\ message_factory_ = FALSE
    /\ enable_statistics \in BOOLEAN
    /\ running_ = FALSE
    /\ should_stop_ = FALSE
    /\ stats_thread_ = "none"
    /\ at = [c \in Contexts |-> "idle"]
    /\ max_runtime_s = 0
    /\ start_time = 0
    /\ last_flush_time_ = 0
    /\ polled = 0
    /\ received = "none"
    /\ flushed = 0
    /\ now = 0

\* The processor after a successful initialize().
Initialised ==
    /\ consumer = "subscribed"
    /\ producer = TRUE
    /\ message_factory_ = TRUE
    /\ enable_statistics = TRUE
    /\ running_ = FALSE
    /\ should_stop_ = FALSE
    /\ stats_thread_ = "none"
    /\ at = [c \in Contexts |-> "idle"]
    /\ max_runtime_s = 0
    /\ start_time = 0
    /\ last_flush_time_ = 0
    /\ polled = 0
    /\ received = "none"
    /\ flushed = 0
    /\ now = 0

\* The clock advances.
Tick ==
    /\ now < MaxTime
    /\ now' = now + 1
    /\ UNCHANGED <<consumer, producer, message_factory_, enable_statistics,
                   running_, should_stop_, stats_thread_, at, max_runtime_s,
                   start_time, last_flush_time_, polled, received, flushed, publishVars>>

\* initialize(): the consumer is initialised and subscribed, the producer
\* initialised, the factory and the router built, the metrics reset. Each of
\* the first three steps can throw; initialize then returns false, with
\* what the steps before it did left as it is.
Initialize ==
    /\ at[Main] = "idle"
    /\ \E failing \in {"consumer", "subscribe", "producer", "nothing"} :
          /\ consumer' = IF failing = "consumer" THEN consumer
                         ELSE IF failing = "subscribe"
                              THEN (IF consumer = "none" THEN "created" ELSE consumer)
                              ELSE "subscribed"
          /\ producer' = (producer \/ failing = "nothing")
          /\ message_factory_' = (message_factory_ \/ failing = "nothing")
          /\ metrics_' = IF failing = "nothing" THEN ResetMetrics ELSE metrics_
    /\ UNCHANGED <<enable_statistics, running_, should_stop_, stats_thread_, at,
                   max_runtime_s, start_time, last_flush_time_, polled,
                   received, flushed, now,
                   msg, success, produced>>

\* A call of start_processing(max_runtime_s).
StartProcessing ==
    /\ at[Main] = "idle"
    /\ \E r \in 0..1 : max_runtime_s' = r
    /\ at' = [at EXCEPT ![Main] = "start_check"]
    /\ UNCHANGED <<consumer, producer, message_factory_, enable_statistics,
                   running_, should_stop_, stats_thread_, start_time,
                   last_flush_time_, polled, received, flushed, now,
                   publishVars>>

\* if (running_) return;
StartCheck ==
    /\ at[Main] = "start_check"
    /\ at' = [at EXCEPT ![Main] = IF running_ THEN "idle" ELSE "set_running"]
    /\ UNCHANGED <<consumer, producer, message_factory_, enable_statistics,
                   running_, should_stop_, stats_thread_, max_runtime_s,
                   start_time, last_flush_time_, polled, received, flushed, now,
                   publishVars>>

\* running_ = true;
SetRunning ==
    /\ at[Main] = "set_running"
    /\ running_' = TRUE
    /\ at' = [at EXCEPT ![Main] = "clear_stop"]
    /\ UNCHANGED <<consumer, producer, message_factory_, enable_statistics,
                   should_stop_, stats_thread_, max_runtime_s, start_time,
                   last_flush_time_, polled, received, flushed, now,
                   publishVars>>

\* should_stop_ = false;
ClearStop ==
    /\ at[Main] = "clear_stop"
    /\ should_stop_' = FALSE
    /\ at' = [at EXCEPT ![Main] = "spawn"]
    /\ UNCHANGED <<consumer, producer, message_factory_, enable_statistics,
                   running_, stats_thread_, max_runtime_s, start_time,
                   last_flush_time_, polled, received, flushed, now,
                   publishVars>>

\* The statistics thread is started if enabled, and start_time is read.
\* Assigning to a std::thread that is still joinable terminates the process.
Spawn ==
    /\ at[Main] = "spawn"
    /\ IF enable_statistics /\ stats_thread_ # "none"
       THEN /\ at' = [at EXCEPT ![Main] = "terminated"]
            /\ UNCHANGED <<stats_thread_, start_time>>
       ELSE /\ stats_thread_' = IF enable_statistics THEN "test" ELSE stats_thread_
            /\ start_time' = now
            /\ at' = [at EXCEPT ![Main] = "loop"]
    /\ UNCHANGED <<consumer, producer, message_factory_, enable_statistics,
                   running_, should_stop_, max_runtime_s, last_flush_time_,
                   polled, received, flushed, now, publishVars>>

\* while (!should_stop_)
LoopTest ==
    /\ at[Main] = "loop"
    /\ at' = [at EXCEPT ![Main] = IF should_stop_ THEN "runtime_check" ELSE "poll"]
    /\ UNCHANGED <<consumer, producer, message_factory_, enable_statistics,
                   running_, should_stop_, stats_thread_, max_runtime_s,
                   start_time, last_flush_time_, polled, received, flushed, now,
                   publishVars>>

\* The flush interval, in steps of the clock.
flush_interval == 1

\* Variant of LoopBody that counts the end of a partition as an error.
LoopBodyCountingEof(poll, accepted) ==
    [metrics |-> IF poll.kind \in {"eof", "error"}
                 THEN [metrics_ EXCEPT !.kafka_errors = @ + 1]
                 ELSE metrics_,
     queue |-> produced, ends |-> FALSE]

\* Variant of LoopBody that takes a message back from messages_processed
\* when it fails.
LoopBodyTakingBack(poll, accepted) ==
    [metrics |-> IF poll.kind = "empty"
                 THEN [metrics_ EXCEPT !.messages_consumed = @ + 1,
                                       !.messages_processed = @ - 1,
                                       !.processing_errors = @ + 1]
                 ELSE metrics_,
     queue |-> produced, ends |-> poll.kind = "empty"]

\* What the loop does with what the poll returned: the metrics and the
\* producer's queue after it, and whether the iteration reaches the flush
\* check at its end (a poll without a message continues before it).
LoopBody(poll, accepted) ==
    IF poll.kind \in {"none", "eof"}
    THEN [metrics |-> metrics_, queue |-> produced, ends |-> FALSE]
    ELSE IF poll.kind = "error"
    THEN [metrics |-> [metrics_ EXCEPT !.kafka_errors = @ + 1],
          queue |-> produced, ends |-> FALSE]
    ELSE LET out == IF poll.kind = "empty"
                    THEN [success |-> FALSE, metrics |-> metrics_, queue |-> produced]
                    ELSE IF poll.kind = "other"
                    THEN [success |-> TRUE, metrics |-> metrics_, queue |-> produced]
                    ELSE process_snapshot(poll.snapshot, accepted)
         IN  [metrics |-> [out.metrics EXCEPT
                              !.messages_consumed = @ + 1,
                              !.messages_processed = IF out.success THEN @ + 1 ELSE @,
                              !.processing_errors = IF out.success THEN @ ELSE @ + 1],
              queue |-> out.queue, ends |-> TRUE]

\* One iteration of processing_loop after the test of should_stop_. Without
\* a consumer consume() returns no message; only a subscribed consumer
\* returns messages. Publishing through a message_factory_ that was never
\* built dereferences a null pointer: the process may end there.
Poll ==
    /\ at[Main] = "poll"
    /\ \E poll \in Polls :
          /\ poll.kind # "none" => (consumer # "none" /\ polled < MaxPolled)
          /\ poll.kind \notin {"none", "error"} => consumer = "subscribed"
          /\ polled' = IF poll.kind = "none" THEN polled ELSE polled + 1
          /\ received' = IF poll.kind = "none" THEN received ELSE poll.kind
          /\ msg' = IF poll.kind = "snapshot" THEN poll.snapshot ELSE msg
          /\ \E accepted \in Acceptances(poll.snapshot), crashes \in BOOLEAN :
                LET out == LoopBody(poll, accepted)
                IN  IF /\ crashes
                       /\ ~message_factory_
                       /\ poll.kind = "snapshot"
                       /\ PublishingDepths(poll.snapshot) # {}
                       /\ poll.snapshot.symbol # NoSymbol
                    THEN /\ at' = [at EXCEPT ![Main] = "terminated"]
                         /\ UNCHANGED <<metrics_, produced, last_flush_time_,
                                        flushed>>
                    ELSE /\ metrics_' = out.metrics
                         /\ produced' = out.queue
                         /\ IF out.ends /\ now - last_flush_time_ >= flush_interval
                            THEN /\ last_flush_time_' = now
                                 /\ flushed' = Len(out.queue)
                            ELSE UNCHANGED <<last_flush_time_, flushed>>
                         /\ at' = [at EXCEPT ![Main] = "loop"]
    /\ UNCHANGED <<consumer, producer, message_factory_, enable_statistics,
                   running_, should_stop_, stats_thread_, max_runtime_s,
                   start_time, now, success>>

\* After processing_loop: stop_processing is called when a runtime limit
\* was given and has passed.
RuntimeCheck ==
    /\ at[Main] = "runtime_check"
    /\ at' = [at EXCEPT ![Main] =
                 IF max_runtime_s > 0 /\ now - start_time >= max_runtime_s
                 THEN "stop_check" ELSE "idle"]
    /\ UNCHANGED <<consumer, producer, message_factory_, enable_statistics,
                   running_, should_stop_, stats_thread_, max_runtime_s,
                   start_time, last_flush_time_, polled, received, flushed, now,
                   publishVars>>

\* Another thread, or the signal handler, calls stop_processing.
StopCall(c) ==
    /\ c \in Stoppers
    /\ at[c] = "idle"
    /\ at' = [at EXCEPT ![c] = "stop_check"]
    /\ UNCHANGED <<consumer, producer, message_factory_, enable_statistics,
                   running_, should_stop_, stats_thread_, max_runtime_s,
                   start_time, last_flush_time_, polled, received, flushed, now,
                   publishVars>>

\* if (!running_) return;
StopCheck(c) ==
    /\ at[c] = "stop_check"
    /\ at' = [at EXCEPT ![c] = IF running_ THEN "stop_flag" ELSE "idle"]
    /\ UNCHANGED <<consumer, producer, message_factory_, enable_statistics,
                   running_, should_stop_, stats_thread_, max_runtime_s,
                   start_time, last_flush_time_, polled, received, flushed, now,
                   publishVars>>

\* should_stop_ = true;
StopFlag(c) ==
    /\ at[c] = "stop_flag"
    /\ should_stop_' = TRUE
    /\ at' = [at EXCEPT ![c] = "stop_join"]
    /\ UNCHANGED <<consumer, producer, message_factory_, enable_statistics,
                   running_, stats_thread_, max_runtime_s, start_time,
                   last_flush_time_, polled, received, flushed, now,
                   publishVars>>

\* if (stats_thread_.joinable()): join() is entered when it is.
StopJoin(c) ==
    /\ at[c] = "stop_join"
    /\ at' = [at EXCEPT ![c] = IF stats_thread_ # "none" THEN "stop_joining"
                                ELSE "stop_clear"]
    /\ UNCHANGED <<consumer, producer, message_factory_, enable_statistics,
                   running_, should_stop_, stats_thread_, max_runtime_s,
                   start_time, last_flush_time_, polled, received, flushed, now,
                   publishVars>>

\* stats_thread_.join() returns when the thread has finished, and leaves
\* stats_thread_ not joinable. A join() on a thread that another context
\* joined in the meantime is undefined: it may return, or it throws and the
\* process ends.
StopJoined(c) ==
    /\ at[c] = "stop_joining"
    /\ \/ /\ stats_thread_ = "finished"
          /\ stats_thread_' = "none"
          /\ at' = [at EXCEPT ![c] = "stop_clear"]
       \/ /\ stats_thread_ = "none"
          /\ \E outcome \in {"stop_clear", "terminated"} :
                at' = [at EXCEPT ![c] = outcome]
          /\ UNCHANGED stats_thread_
    /\ UNCHANGED <<consumer, producer, message_factory_, enable_statistics,
                   running_, should_stop_, max_runtime_s, start_time,
                   last_flush_time_, polled, received, flushed, now,
                   publishVars>>

\* running_ = false; the final statistics are printed; return.
StopClear(c) ==
    /\ at[c] = "stop_clear"
    /\ running_' = FALSE
    /\ at' = [at EXCEPT ![c] = "idle"]
    /\ UNCHANGED <<consumer, producer, message_factory_, enable_statistics,
                   should_stop_, stats_thread_, max_runtime_s, start_time,
                   last_flush_time_, polled, received, flushed, now,
                   publishVars>>

\* stats_thread(): while (!should_stop_)
StatsTest ==
    /\ stats_thread_ = "test"
    /\ stats_thread_' = IF should_stop_ THEN "finished" ELSE "sleep"
    /\ UNCHANGED <<consumer, producer, message_factory_, enable_statistics,
                   running_, should_stop_, at, max_runtime_s, start_time,
                   last_flush_time_, polled, received, flushed, now,
                   publishVars>>

\* stats_thread(): the sleep ends; the statistics are printed unless
\* should_stop_ is set.
StatsWake ==
    /\ stats_thread_ = "sleep"
    /\ stats_thread_' = "test"
    /\ UNCHANGED <<consumer, producer, message_factory_, enable_statistics,
                   running_, should_stop_, at, max_runtime_s, start_time,
                   last_flush_time_, polled, received, flushed, now,
                   publishVars>>

(***************************************************************************)
(* processing_loop and print_statistics                                    *)
(* (src/src/MarketDepthProcessor.cpp): the worker beside the statistics    *)
(* thread                                                                  *)
(***************************************************************************)
\* The thread of processing_loop; its calls of update_processing_time are
\* those of this thread.
Worker == "first"

\* The snapshots the worker receives: of either symbol, or without one.
WorkSnapshots ==
    {[null |-> FALSE, symbol |-> sym, seq |-> 1,
      recent_trade_price |-> 3, recent_trade_qty |-> 1,
      buy_side |-> OneLevel(1), sell_side |-> OneLevel(2)] :
        sym \in Symbols \cup {NoSymbol}}

\* The processing times the worker measures.
WorkTimes == {1, 2}

\* The atomics print_statistics loads, in the order of its loads.
Loaded ==
    <<"messages_consumed", "messages_processed", "messages_published",
      "processing_errors", "kafka_errors", "total_processing_time_us",
      "max_processing_time_us", "min_processing_time_us">>

\* The value of the i-th of them.
Load(i) ==
    IF i = 6 THEN total_processing_time_us
    ELSE IF i = 7 THEN max_processing_time_us
    ELSE IF i = 8 THEN min_processing_time_us
    ELSE metrics_[Loaded[i]]

\* The keys of symbol_message_counts: operator[] inserts the symbol the
\* first time it is counted.
Keys(counts) == {sym \in Symbols : counts[sym] > 0}

\* The statistics thread asleep in stats_thread().
Asleep ==
    [at |-> "sleep", loads |-> <<>>, size |-> 0, visited |-> {}, raced |-> FALSE]

\* The worker before a poll, the statistics thread asleep.
StatisticsIdle ==
    /\ worker = [at |-> "poll", success |-> FALSE]
    /\ stats = Asleep

\* consume() returns a snapshot and process_message(msg) handles it:
\* process_snapshot publishes it and counts its symbol. Inserting a symbol
\* while the loop of print_statistics is inside the map is a data race.
WorkerProcess ==
    /\ worker.at = "poll"
    /\ metrics_.messages_consumed < MaxWorked
    /\ \E snap \in WorkSnapshots :
          \E accepted \in Acceptances(snap) :
              LET out == process_snapshot(snap, accepted)
                  inserts == Keys(out.metrics.symbol_message_counts)
                                 # Keys(metrics_.symbol_message_counts)
              IN  /\ msg' = snap
                  /\ metrics_' = out.metrics
                  /\ produced' = out.queue
                  /\ worker' = [at |-> "consumed", success |-> out.success]
                  /\ stats' = [stats EXCEPT
                                  !.raced = @ \/ (inserts /\ stats.at = "iterate")]
    /\ UNCHANGED <<success, timingVars>>

\* metrics_.messages_consumed++
WorkerConsumed ==
    /\ worker.at = "consumed"
    /\ metrics_' = [metrics_ EXCEPT !.messages_consumed = @ + 1]
    /\ worker' = [worker EXCEPT !.at = "outcome"]
    /\ UNCHANGED <<msg, success, produced, stats, timingVars>>

\* if (success) { messages_processed++; update_processing_time(...) is
\* called } else processing_errors++
WorkerOutcome ==
    /\ worker.at = "outcome"
    /\ IF worker.success
       THEN /\ metrics_' = [metrics_ EXCEPT !.messages_processed = @ + 1]
            /\ \E time_us \in WorkTimes :
                  /\ update' = [update EXCEPT
                                  ![Worker] = [NoCall EXCEPT !.at = "add",
                                                             !.time_us = time_us]]
                  /\ submitted' = Append(submitted, time_us)
            /\ worker' = [worker EXCEPT !.at = "timing"]
       ELSE /\ metrics_' = [metrics_ EXCEPT !.processing_errors = @ + 1]
            /\ worker' = [worker EXCEPT !.at = "poll"]
            /\ UNCHANGED <<update, submitted>>
    /\ UNCHANGED <<msg, success, produced, stats, total_processing_time_us,
                   max_processing_time_us, min_processing_time_us, overlapped>>

\* update_processing_time has returned: the iteration ends.
WorkerTimed ==
    /\ worker.at = "timing"
    /\ update[Worker].at = "idle"
    /\ worker' = [worker EXCEPT !.at = "poll"]
    /\ UNCHANGED <<publishVars, stats, timingVars>>

\* stats_thread(): the sleep ends and print_statistics() is called.
StatsPrint ==
    /\ stats.at = "sleep"
    /\ stats' = [Asleep EXCEPT !.at = "load"]
    /\ UNCHANGED <<publishVars, worker, timingVars>>

\* One load() of print_statistics; after the last, the size() of the map.
StatsLoad ==
    /\ stats.at = "load"
    /\ LET i == Len(stats.loads) + 1
       IN  IF i <= Len(Loaded)
           THEN stats' = [stats EXCEPT !.loads = Append(@, Load(i))]
           ELSE stats' = [stats EXCEPT
                            !.size = Cardinality(Keys(metrics_.symbol_message_counts)),
                            !.at = "iterate"]
    /\ UNCHANGED <<publishVars, worker, timingVars>>

\* One step of the loop over symbol_message_counts: the next element, in the
\* order of the unordered_map, or the end of the loop. After an insertion
\* raced with the loop its iterator is not valid: the thread may also fault.
StatsVisit ==
    /\ stats.at = "iterate"
    /\ LET left == Keys(metrics_.symbol_message_counts) \ stats.visited
       IN  \/ /\ left # {}
              /\ \E sym \in left :
                    stats' = [stats EXCEPT !.visited = @ \cup {sym}]
           \/ /\ left = {}
              /\ stats' = [stats EXCEPT !.at = "sleep"]
           \/ /\ stats.raced
              /\ stats' = [stats EXCEPT !.at = "fault"]
    /\ UNCHANGED <<publishVars, worker, timingVars>>

\* MessageFactory(config) and MessageRouter(config); nothing was asked of
\* either yet.
MessageInit ==
    /\ json_config \in JsonConfigs
    /\ json_config.include_timestamp /\ json_config.include_sequence
    /\ ~json_config.compact_format
    /\ topic_config = DefaultTopicConfig
    /\ depth_levels = <<>>
    /\ hasher_ = [sym \in Symbols |-> 0]
    /\ snapshot = EmptySnapshot("ABC")
    /\ result = EmptyResult
    /\ routed = <<>>
    /\ PublishIdle
    /\ TimingIdle
    /\ StatisticsIdle
    /\ Created

\* A call of create_multi_depth_json(snapshot, depth_levels). The factory
\* keeps nothing from one call to the next: one call is followed.
CreateMultiDepthJson ==
    /\ snapshot.sequence = 0
    /\ \E snap \in FactorySnapshots, depths \in DepthVectors :
        /\ snapshot' = snap
        /\ depth_levels' = depths
        /\ result' = create_multi_depth_json(EmptyResult, snap, depths, 1)
        /\ UNCHANGED <<json_config, topic_config, hasher_, routed, publishVars,
                       lifecycleVars>>

bookSide == <<bookVars, delivered, ret, arg, consumed>>

\* No thread is in OrderBookManager::process_snapshot; the statistics are zero.
ManagerInit ==
    /\ inside = [t \in Threads |-> "none"]
    /\ orderbook = [t \in Threads |-> 0]
    /\ stats_ = [messages_processed |-> 0, processing_errors |-> 0,
                 symbol_message_counts |-> [s \in Symbols |-> 0]]
    /\ message_counts = [b \in OrderBooks |-> 0]
    /\ loaded = [t \in Threads |-> 0]
    /\ reached = 0

\* OrderBookManager::process_snapshot with a null snapshot or one without a
\* symbol: false, before anything is touched.
ManagerReject(t) ==
    /\ inside[t] = "none"
    /\ pc[t] = "idle"
    /\ lookups < MaxLookups
    /\ lookups' = lookups + 1
    /\ UNCHANGED <<orderbooks_, orderbooks_mutex_, constructed, pc, symbol,
                   returned, tracked, managerVars>>

\* OrderBookManager::process_snapshot with a snapshot of symbol s: the call
\* of get_or_create_orderbook(s).
ManagerCall(t) ==
    /\ inside[t] = "none"
    /\ Call(t)
    /\ inside' = [inside EXCEPT ![t] = "lookup"]
    /\ UNCHANGED <<orderbook, stats_, message_counts, loaded, reached>>

\* get_or_create_orderbook has returned: orderbook->process_snapshot(snapshot)
\* starts. No lock is held here.
EnterBook(t) ==
    /\ inside[t] = "lookup"
    /\ pc[t] = "idle"
    /\ orderbook' = [orderbook EXCEPT ![t] = orderbooks_[symbol[t]]]
    /\ inside' = [inside EXCEPT ![t] = "book"]
    /\ reached' = reached + 1
    /\ UNCHANGED <<registryVars, stats_, message_counts, loaded>>

\* ++message_count_ in OrderBook::process_snapshot, on a plain uint64_t and
\* under no lock: the read of the increment.
ReadCount(t) ==
    /\ inside[t] = "book"
    /\ loaded' = [loaded EXCEPT ![t] = message_counts[orderbook[t]]]
    /\ inside' = [inside EXCEPT ![t] = "count"]
    /\ UNCHANGED <<registryVars, orderbook, stats_, message_counts, reached>>

\* The write of the increment, and orderbook->process_snapshot(snapshot)
\* returns; the snapshot has the symbol of the OrderBook, so it returns true.
LeaveBook(t) ==
    /\ inside[t] = "count"
    /\ message_counts' = [message_counts EXCEPT ![orderbook[t]] = loaded[t] + 1]
    /\ loaded' = [loaded EXCEPT ![t] = 0]
    /\ inside' = [inside EXCEPT ![t] = "stats"]
    /\ UNCHANGED <<registryVars, orderbook, stats_, reached>>

\* The statistics block, under stats_mutex_, and the return:
\* stats_.increment_processed(symbol, seq).
UpdateStats(t) ==
    /\ inside[t] = "stats"
    /\ stats_' = [stats_ EXCEPT !.messages_processed = @ + 1,
                                !.symbol_message_counts[symbol[t]] = @ + 1]
    /\ orderbook' = [orderbook EXCEPT ![t] = 0]
    /\ inside' = [inside EXCEPT ![t] = "none"]
    /\ UNCHANGED <<registryVars, message_counts, loaded, reached>>

\* What the specifications of parts 1 and 2 leave alone.
messageSide ==
    <<configVars, factoryVars, routed, publishVars, lifecycleVars, metricsSide>>

Init == BookInit /\ RegistryInit /\ ManagerInit /\ MessageInit

Next ==
    \/ ProcessNull /\ UNCHANGED <<registryVars, managerVars, messageSide>>
    \/ ProcessSnapshot /\ UNCHANGED <<registryVars, managerVars, messageSide>>

\* One OrderBook and the snapshots handed to it.
Spec == Init /\ [][Next]_vars

RecordedNext ==
    ProcessRecorded /\ UNCHANGED <<registryVars, managerVars, messageSide>>

\* One OrderBook and the snapshots handed to it, their sides recorded.
RecordedSpec == Init /\ [][RecordedNext]_vars

\* The manager's config and callback, which it passes to every OrderBook.
RegistryInitAll ==
    /\ BookInit
    /\ config_ = [enable_cdc |-> TRUE, max_price_levels |-> 2]
    /\ cdc_callback_
    /\ RegistryInit
    /\ ManagerInit
    /\ MessageInit

RegistryNext ==
    \E t \in Threads :
        \/ Call(t) /\ UNCHANGED <<bookSide, managerVars, messageSide>>
        \/ SharedLock(t) /\ UNCHANGED <<bookSide, managerVars, messageSide>>
        \/ Find(t) /\ UNCHANGED <<bookSide, managerVars, messageSide>>
        \/ UniqueLock(t) /\ UNCHANGED <<bookSide, managerVars, messageSide>>
        \/ DoubleCheck(t) /\ UNCHANGED <<bookSide, managerVars, messageSide>>
        \/ GetTrackedSymbols(t) /\ UNCHANGED <<bookSide, managerVars, messageSide>>

\* The OrderBookManager's map and the threads that use it.
RegistrySpec == RegistryInitAll /\ [][RegistryNext]_vars

ManagerNext ==
    \E t \in Threads :
        \/ ManagerReject(t) /\ UNCHANGED <<bookSide, messageSide>>
        \/ ManagerCall(t) /\ UNCHANGED <<bookSide, messageSide>>
        \/ SharedLock(t) /\ UNCHANGED <<bookSide, managerVars, messageSide>>
        \/ Find(t) /\ UNCHANGED <<bookSide, managerVars, messageSide>>
        \/ UniqueLock(t) /\ UNCHANGED <<bookSide, managerVars, messageSide>>
        \/ DoubleCheck(t) /\ UNCHANGED <<bookSide, managerVars, messageSide>>
        \/ EnterBook(t) /\ UNCHANGED <<bookSide, messageSide>>
        \/ ReadCount(t) /\ UNCHANGED <<bookSide, messageSide>>
        \/ LeaveBook(t) /\ UNCHANGED <<bookSide, messageSide>>
        \/ UpdateStats(t) /\ UNCHANGED <<bookSide, messageSide>>

\* The threads that hand snapshots to OrderBookManager::process_snapshot.
ManagerSpec == RegistryInitAll /\ [][ManagerNext]_vars

FactoryInit ==
    /\ BookInit
    /\ config_ = [enable_cdc |-> TRUE, max_price_levels |-> 2]
    /\ cdc_callback_
    /\ RegistryInit
    /\ ManagerInit
    /\ json_config \in JsonConfigs
    /\ topic_config = DefaultTopicConfig
    /\ depth_levels = <<>>
    /\ hasher_ = [sym \in Symbols |-> 0]
    /\ snapshot = EmptySnapshot("ABC")
    /\ result = EmptyResult
    /\ routed = <<>>
    /\ PublishIdle
    /\ TimingIdle
    /\ StatisticsIdle
    /\ Created

FactoryNext ==
    CreateMultiDepthJson /\ UNCHANGED <<bookSide, registryVars, managerVars, metricsSide>>

\* A MessageFactory and the snapshots handed to it.
FactorySpec == FactoryInit /\ [][FactoryNext]_vars

RouterInit ==
    /\ BookInit
    /\ config_ = [enable_cdc |-> TRUE, max_price_levels |-> 2]
    /\ cdc_callback_
    /\ RegistryInit
    /\ ManagerInit
    /\ json_config \in JsonConfigs
    /\ json_config.include_timestamp /\ json_config.include_sequence
    /\ ~json_config.compact_format
    /\ topic_config \in TopicConfigs
    /\ depth_levels = <<>>
    /\ hasher_ \in Hashers
    /\ snapshot = EmptySnapshot("ABC")
    /\ result = EmptyResult
    /\ routed = <<>>
    /\ PublishIdle
    /\ TimingIdle
    /\ StatisticsIdle
    /\ Created

RouterNext ==
    \/ RouteSnapshot /\ UNCHANGED <<bookSide, registryVars, managerVars, metricsSide>>
    \/ RouteCdc /\ UNCHANGED <<bookSide, registryVars, managerVars, metricsSide>>

\* A MessageRouter and the calls made on it.
RouterSpec == RouterInit /\ [][RouterNext]_vars

\* MarketDepthProcessor(config) and a successful initialize().
PublishInit ==
    /\ BookInit
    /\ config_ = [enable_cdc |-> TRUE, max_price_levels |-> 2]
    /\ cdc_callback_
    /\ RegistryInit
    /\ ManagerInit
    /\ json_config \in JsonConfigs
    /\ json_config.include_timestamp /\ json_config.include_sequence
    /\ ~json_config.compact_format
    /\ topic_config \in TopicConfigs
    /\ topic_config.num_partitions = 2
    /\ depth_levels \in ProcessorDepths
    /\ hasher_ = [sym \in Symbols |-> IF sym = "ABC" THEN 3 ELSE 8]
    /\ snapshot = EmptySnapshot("ABC")
    /\ result = EmptyResult
    /\ routed = <<>>
    /\ PublishIdle
    /\ TimingIdle
    /\ StatisticsIdle
    /\ Initialised

PublishNext ==
    ProcessorProcessSnapshot /\ UNCHANGED <<bookSide, registryVars, managerVars, metricsSide>>

\* A MarketDepthProcessor and the snapshot it processes.
PublishSpec == PublishInit /\ [][PublishNext]_vars

\* What the processor's threads leave alone.
processorRest ==
    <<bookSide, registryVars, managerVars, configVars, factoryVars, routed,
      metricsSide>>

\* MarketDepthProcessor(config), with one depth configured.
LifecycleInit ==
    /\ BookInit
    /\ config_ = [enable_cdc |-> TRUE, max_price_levels |-> 2]
    /\ cdc_callback_
    /\ RegistryInit
    /\ ManagerInit
    /\ json_config \in JsonConfigs
    /\ json_config.include_timestamp /\ json_config.include_sequence
    /\ ~json_config.compact_format
    /\ topic_config = DefaultTopicConfig
    /\ depth_levels = <<1>>
    /\ hasher_ = [sym \in Symbols |-> IF sym = "ABC" THEN 3 ELSE 8]
    /\ snapshot = EmptySnapshot("ABC")
    /\ result = EmptyResult
    /\ routed = <<>>
    /\ PublishIdle
    /\ TimingIdle
    /\ StatisticsIdle
    /\ Created

\* The steps of the thread in start_processing, and of its caller.
MainNext ==
    \/ Initialize /\ UNCHANGED processorRest
    \/ StartProcessing /\ UNCHANGED processorRest
    \/ StartCheck /\ UNCHANGED processorRest
    \/ SetRunning /\ UNCHANGED processorRest
    \/ ClearStop /\ UNCHANGED processorRest
    \/ Spawn /\ UNCHANGED processorRest
    \/ LoopTest /\ UNCHANGED processorRest
    \/ Poll /\ UNCHANGED processorRest
    \/ RuntimeCheck /\ UNCHANGED processorRest

\* The steps of stop_processing in context c.
StopNext(c) ==
    \/ StopCheck(c) /\ UNCHANGED processorRest
    \/ StopFlag(c) /\ UNCHANGED processorRest
    \/ StopJoin(c) /\ UNCHANGED processorRest
    \/ StopJoined(c) /\ UNCHANGED processorRest
    \/ StopClear(c) /\ UNCHANGED processorRest

StatsNext ==
    \/ StatsTest /\ UNCHANGED processorRest
    \/ StatsWake /\ UNCHANGED processorRest

ClockNext == Tick /\ UNCHANGED processorRest

\* The iteration of processing_loop in which consume() returns no message
\* when its timeout has passed.
PollNothing ==
    /\ at[Main] = "poll"
    /\ at' = [at EXCEPT ![Main] = "loop"]
    /\ UNCHANGED <<consumer, producer, message_factory_, enable_statistics,
                   running_, should_stop_, stats_thread_, max_runtime_s,
                   start_time, last_flush_time_, polled, received, flushed, now,
                   publishVars>>

\* The steps a thread takes by itself once it is inside a call: all but the
\* calls of initialize, start_processing and stop_processing themselves,
\* and the arrival of a message or an error at the consumer.
Running(c) ==
    \/ /\ c = Main
       /\ \/ StartCheck \/ SetRunning \/ ClearStop \/ Spawn
          \/ LoopTest \/ PollNothing \/ RuntimeCheck
       /\ UNCHANGED processorRest
    \/ StopNext(c)

LifecycleNext ==
    \/ MainNext
    \/ \E c \in Stoppers : StopCall(c) /\ UNCHANGED processorRest
    \/ \E c \in Contexts : StopNext(c)
    \/ StatsNext
    \/ ClockNext

\* The processor, its threads and the threads that stop it.
LifecycleSpec == LifecycleInit /\ [][LifecycleNext]_vars

\* The scheduler is fair to every thread inside a call, consume() returns,
\* and time passes.
Fairness ==
    /\ \A c \in Contexts : WF_vars(Running(c))
    /\ WF_vars(StatsNext)
    /\ WF_vars(ClockNext)

FairLifecycleSpec == LifecycleSpec /\ Fairness

(***************************************************************************)
(* Threads in PerformanceMetrics::update_processing_time                   *)
(***************************************************************************)
timingRest ==
    <<bookSide, registryVars, managerVars, configVars, factoryVars, routed,
      publishVars, lifecycleVars, statisticsVars>>

TimingInit ==
    /\ Init
    /\ config_ = [enable_cdc |-> TRUE, max_price_levels |-> 2]
    /\ cdc_callback_

TimingNext ==
    \E t \in Updaters :
        \/ UpdateCall(t) /\ UNCHANGED timingRest
        \/ UpdateAdd(t) /\ UNCHANGED timingRest
        \/ UpdateLoadMax(t) /\ UNCHANGED timingRest
        \/ UpdateCasMax(t) /\ UNCHANGED timingRest
        \/ UpdateLoadMin(t) /\ UNCHANGED timingRest
        \/ UpdateCasMin(t) /\ UNCHANGED timingRest

\* Threads that call update_processing_time on one PerformanceMetrics.
TimingSpec == TimingInit /\ [][TimingNext]_vars

(***************************************************************************)
(* The worker and the statistics thread of a running processor             *)
(***************************************************************************)
statisticsRest ==
    <<bookSide, registryVars, managerVars, configVars, factoryVars, routed,
      lifecycleVars>>

\* The processor after initialize() and start_processing(): the worker is in
\* processing_loop, the statistics thread was spawned.
StatisticsInit ==
    /\ BookInit
    /\ config_ = [enable_cdc |-> TRUE, max_price_levels |-> 2]
    /\ cdc_callback_
    /\ RegistryInit
    /\ ManagerInit
    /\ json_config \in JsonConfigs
    /\ json_config.include_timestamp /\ json_config.include_sequence
    /\ ~json_config.compact_format
    /\ topic_config = DefaultTopicConfig
    /\ depth_levels = <<1>>
    /\ hasher_ = [sym \in Symbols |-> IF sym = "ABC" THEN 3 ELSE 8]
    /\ snapshot = EmptySnapshot("ABC")
    /\ result = EmptyResult
    /\ routed = <<>>
    /\ PublishIdle
    /\ TimingIdle
    /\ StatisticsIdle
    /\ consumer = "subscribed"
    /\ producer = TRUE
    /\ message_factory_ = TRUE
    /\ enable_statistics = TRUE
    /\ running_ = TRUE
    /\ should_stop_ = FALSE
    /\ stats_thread_ = "sleep"
    /\ at = [c \in Contexts |-> IF c = Main THEN "poll" ELSE "idle"]
    /\ max_runtime_s = 0
    /\ start_time = 0
    /\ last_flush_time_ = 0
    /\ polled = 0
    /\ received = "none"
    /\ flushed = 0
    /\ now = 0

\* The calls of update_processing_time are the worker's.
StatisticsNext ==
    \/ WorkerProcess /\ UNCHANGED statisticsRest
    \/ WorkerConsumed /\ UNCHANGED statisticsRest
    \/ WorkerOutcome /\ UNCHANGED statisticsRest
    \/ UpdateAdd(Worker) /\ UNCHANGED <<statisticsRest, publishVars, statisticsVars>>
    \/ UpdateLoadMax(Worker) /\ UNCHANGED <<statisticsRest, publishVars, statisticsVars>>
    \/ UpdateCasMax(Worker) /\ UNCHANGED <<statisticsRest, publishVars, statisticsVars>>
    \/ UpdateLoadMin(Worker) /\ UNCHANGED <<statisticsRest, publishVars, statisticsVars>>
    \/ UpdateCasMin(Worker) /\ UNCHANGED <<statisticsRest, publishVars, statisticsVars>>
    \/ WorkerTimed /\ UNCHANGED statisticsRest
    \/ StatsPrint /\ UNCHANGED statisticsRest
    \/ StatsLoad /\ UNCHANGED statisticsRest
    \/ StatsVisit /\ UNCHANGED statisticsRest

\* processing_loop on the main thread and print_statistics on stats_thread_.
StatisticsSpec == StatisticsInit /\ [][StatisticsNext]_vars

(***************************************************************************)
(* Properties of OrderBook::process_snapshot                               *)
(***************************************************************************)
\* The step is a call that returned true.
Succeeds == message_count_' = message_count_ + 1

\* The step is a call that returned false.
Fails == consumed' # consumed /\ ret' = "false"

\* The last call returned true, on a book that was initialised on entry and
\* that hands CDC events to a callback.
DiffedLastCall ==
    /\ ret = "true"
    /\ message_count_ >= 2
    /\ config_.enable_cdc
    /\ cdc_callback_

\* What the claims compare of a level.
Triple(level) == <<level.price, level.quantity, level.num_orders>>

Triples(levels) == [p \in DOMAIN levels |-> Triple(levels[p])]

LevelsOf(snap, side) ==
    IF side = Buy THEN snap.bid_levels ELSE snap.ask_levels

\* The subsequence of the events of one side.
EventsOf(events, side) == SelectSeq(events, LAMBDA e : e.side = side)

\* A consumer's patch: delete the price on LevelRemoved, insert or overwrite
\* the level on LevelAdded and LevelModified.
RECURSIVE ApplyPatch(_, _)
ApplyPatch(levels, events) ==
    IF events = <<>> THEN levels
    ELSE LET e == Head(events)
             p == e.level.price
             patched ==
                 IF e.event_type = LevelRemoved
                 THEN [q \in (DOMAIN levels) \ {p} |-> levels[q]]
                 ELSE [q \in (DOMAIN levels) \cup {p} |->
                          IF q = p THEN Triple(e.level) ELSE levels[q]]
         IN  ApplyPatch(patched, Tail(events))

\* C1: a call made on a book that is not yet initialised (the first snapshot
\* it processes, or a rejected call before it) hands no CDC event to the
\* callback, whatever enable_cdc and the callback are.
C1_NoCdcBeforeInitialized == [][~initialized_ => delivered' = <<>>]_vars

\* The first snapshot, with a level in it, went through a book with CDC enabled
\* and a callback installed, and nothing was delivered.
C1_Witness ==
    /\ ret = "true"
    /\ message_count_ = 1
    /\ config_.enable_cdc
    /\ cdc_callback_
    /\ DOMAIN current_snapshot_.bid_levels # {}
    /\ delivered = <<>>

\* C2: round trip. After a diffed call, the previous levels patched with the
\* delivered events of a side are the current levels of that side.
C2_RoundTrip ==
    DiffedLastCall =>
        \A side \in {Buy, Sell} :
            ApplyPatch(Triples(LevelsOf(previous_snapshot_, side)),
                       EventsOf(delivered, side))
            = Triples(LevelsOf(current_snapshot_, side))

\* A diffed call that removed one level and modified another.
C2_Witness ==
    /\ DiffedLastCall
    /\ \E i \in 1..Len(delivered) : delivered[i].event_type = LevelRemoved
    /\ \E i \in 1..Len(delivered) : delivered[i].event_type = LevelModified

\* The events the level-diff of one side calls for, as (type, level) pairs.
ExpectedEvents(O, N) ==
    {<<LevelRemoved, Triple(O[p])>> : p \in (DOMAIN O) \ (DOMAIN N)}
    \cup {<<LevelAdded, Triple(N[p])>> : p \in (DOMAIN N) \ (DOMAIN O)}
    \cup {<<LevelModified, Triple(N[p])>> :
              p \in {q \in (DOMAIN N) \cap (DOMAIN O) : Triple(O[q]) # Triple(N[q])}}

\* C3: level-diff result. After a diffed call the delivered events of a side
\* are exactly the expected ones, each once, and every event carries the
\* book's symbol and the seq of the call's snapshot.
C3_LevelDiff ==
    DiffedLastCall =>
        /\ \A side \in {Buy, Sell} :
              LET evs == EventsOf(delivered, side)
                  exp == ExpectedEvents(LevelsOf(previous_snapshot_, side),
                                        LevelsOf(current_snapshot_, side))
              IN  /\ {<<evs[i].event_type, Triple(evs[i].level)>> : i \in 1..Len(evs)} = exp
                  /\ Len(evs) = Cardinality(exp)
        /\ \A i \in 1..Len(delivered) :
              /\ delivered[i].symbol = symbol_
              /\ delivered[i].sequence = arg.seq
              /\ delivered[i].side \in {Buy, Sell}

\* A diffed call that found the quantity of an ask changed, not its number
\* of orders, and reported the level as modified.
C3_Witness ==
    /\ DiffedLastCall
    /\ \E p \in (DOMAIN current_snapshot_.ask_levels)
                    \cap (DOMAIN previous_snapshot_.ask_levels) :
          /\ previous_snapshot_.ask_levels[p].quantity
                 # current_snapshot_.ask_levels[p].quantity
          /\ previous_snapshot_.ask_levels[p].num_orders
                 = current_snapshot_.ask_levels[p].num_orders
    /\ delivered # <<>>
    /\ \A i \in 1..Len(delivered) :
          delivered[i].event_type = LevelModified /\ delivered[i].side = Sell

\* The group of an event in the delivery order.
Group(e) ==
    IF e.side = Buy
    THEN (IF e.event_type = LevelRemoved THEN 1 ELSE 2)
    ELSE (IF e.event_type = LevelRemoved THEN 3 ELSE 4)

\* C4: delivery order. Buy removals, then buy adds/modifies, then sell
\* removals, then sell adds/modifies; within a group the prices descend for
\* the buy side and ascend for the sell side.
C4_DeliveryOrder ==
    \A i, j \in 1..Len(delivered) :
        i < j =>
            /\ Group(delivered[i]) <= Group(delivered[j])
            /\ Group(delivered[i]) = Group(delivered[j]) =>
                  IF delivered[i].side = Buy
                  THEN delivered[i].level.price > delivered[j].level.price
                  ELSE delivered[i].level.price < delivered[j].level.price

\* One call delivered events of all four groups.
C4_Witness ==
    \A g \in 1..4 : \E i \in 1..Len(delivered) : Group(delivered[i]) = g

\* C5: a snapshot whose levels are those of the snapshot processed just
\* before it delivers no event, whatever the two sequence numbers are.
C5_RepeatIsSilent ==
    [][(/\ Succeeds
        /\ initialized_
        /\ current_snapshot_'.bid_levels = current_snapshot_.bid_levels
        /\ current_snapshot_'.ask_levels = current_snapshot_.ask_levels)
       => delivered' = <<>>]_vars

\* A diffed call repeated the levels of the snapshot before it under another
\* sequence number.
C5_Witness ==
    /\ DiffedLastCall
    /\ previous_snapshot_.bid_levels = current_snapshot_.bid_levels
    /\ previous_snapshot_.ask_levels = current_snapshot_.ask_levels
    /\ DOMAIN current_snapshot_.bid_levels # {}
    /\ DOMAIN current_snapshot_.ask_levels # {}
    /\ previous_snapshot_.sequence # current_snapshot_.sequence
    /\ delivered = <<>>

\* The iteration of a side's map, as the sequence of the levels' prices.
Iteration(side, levels) ==
    LET keys == IterKeys(side, DOMAIN levels)
    IN  [i \in 1..Len(keys) |-> levels[keys[i]].price]

\* C6: after a call that returned true the current snapshot has the seq of
\* the input, the book is initialised, every key maps to a level of that
\* price, and the bids iterate strictly descending, the asks strictly
\* ascending (so no price comes twice).
C6_AfterSuccess ==
    ret = "true" =>
        /\ current_snapshot_.sequence = arg.seq
        /\ initialized_
        /\ \A side \in {Buy, Sell} :
              \A p \in DOMAIN LevelsOf(current_snapshot_, side) :
                  LevelsOf(current_snapshot_, side)[p].price = p
        /\ LET bids == Iteration(Buy, current_snapshot_.bid_levels)
               asks == Iteration(Sell, current_snapshot_.ask_levels)
           IN  /\ \A i, j \in 1..Len(bids) : i < j => bids[i] > bids[j]
               /\ \A i, j \in 1..Len(asks) : i < j => asks[i] < asks[j]

\* A second snapshot, of a lower seq than the first, left two bids.
C6_Witness ==
    /\ ret = "true"
    /\ message_count_ = 2
    /\ Cardinality(DOMAIN current_snapshot_.bid_levels) = 2
    /\ current_snapshot_.sequence < previous_snapshot_.sequence

\* C7 as stated: every call that returns true leaves in previous_snapshot_
\* the current snapshot it found on entry, with or without CDC.
C7_PreviousIsEntryCurrent ==
    [][Succeeds => previous_snapshot_' = current_snapshot_]_vars

\* C7 as amended: with enable_cdc a call that returns true leaves in
\* previous_snapshot_ the current snapshot it found on entry; without
\* enable_cdc it leaves previous_snapshot_ as it was.
C7_PreviousWhenCdc ==
    [][Succeeds =>
          IF config_.enable_cdc
          THEN previous_snapshot_' = current_snapshot_
          ELSE previous_snapshot_' = previous_snapshot_]_vars

\* Two snapshots went through a book with CDC enabled; the first one, with a
\* level in it, is now the previous one.
C7_Witness ==
    /\ ret = "true"
    /\ message_count_ = 2
    /\ config_.enable_cdc
    /\ previous_snapshot_.sequence # 0
    /\ DOMAIN previous_snapshot_.ask_levels # {}
    /\ previous_snapshot_ # current_snapshot_

\* C8: a call that returns false changes neither snapshot, nor the message
\* count, nor the initialised flag, and delivers no event.
C8_FailureChangesNothing ==
    [][Fails =>
          /\ UNCHANGED <<current_snapshot_, previous_snapshot_,
                         message_count_, initialized_>>
          /\ delivered' = <<>>]_vars

\* A snapshot of another symbol was rejected by an initialised book.
C8_Witness ==
    /\ ret = "false"
    /\ arg.symbol = "XYZ"
    /\ initialized_
    /\ DOMAIN current_snapshot_.bid_levels # {}

\* C9: process_snapshot returns true only for a snapshot that carries the
\* book's symbol; a snapshot of another symbol or without a symbol is
\* rejected.
C9_OnlyOwnSymbolAccepted ==
    ret = "true" => arg.symbol = symbol_

(***************************************************************************)
(* Properties of OrderBookManager::get_or_create_orderbook                 *)
(***************************************************************************)
\* C10: whatever the interleaving of the threads' calls, at most one
\* OrderBook is ever constructed for a symbol, the map holds it from then on
\* (the entry is neither removed nor replaced), every caller for the symbol
\* was handed that OrderBook, and a symbol once tracked stays tracked.
C10_OneOrderBookPerSymbol ==
    /\ \A s \in Symbols :
          /\ constructed[s] <= 1
          /\ constructed[s] = 1 <=> orderbooks_[s] # 0
    /\ \A r \in returned : orderbooks_[r[1]] = r[2]
    /\ \A t \in Threads : \A s \in tracked[t] : orderbooks_[s] # 0

\* A thread that missed the symbol under the shared lock holds the unique
\* lock and is about to look again, after another thread has inserted the
\* symbol's OrderBook and returned it.
C10_Witness ==
    \E t \in Threads :
        /\ pc[t] = "double_check"
        /\ orderbooks_[symbol[t]] # 0
        /\ \E r \in returned : r[1] = symbol[t]

(***************************************************************************)
(* Properties of OrderBookManager::process_snapshot                        *)
(***************************************************************************)
\* C11: no two threads are inside process_snapshot of the same OrderBook at
\* the same time.
C11_OneWriterPerBook ==
    \A t1, t2 \in Threads :
        (t1 # t2 /\ inside[t1] = "book" /\ inside[t2] = "book")
            => orderbook[t1] # orderbook[t2]

(***************************************************************************)
(* Properties of the MessageFactory and the MessageRouter                  *)
(***************************************************************************)
Range(f) == {f[i] : i \in DOMAIN f}

\* C12: create_multi_depth_json returns a JSON for exactly those of the
\* depths asked for that both sides of the snapshot have levels for, and the
\* JSON for depth d has d bids and d asks.
C12_MultiDepth ==
    /\ DOMAIN result \subseteq Range(depth_levels)
    /\ \A d \in Range(depth_levels) :
          d \in DOMAIN result <=>
              /\ Cardinality(DOMAIN snapshot.bid_levels) >= d
              /\ Cardinality(DOMAIN snapshot.ask_levels) >= d
    /\ \A d \in DOMAIN result :
          /\ Len(result[d].bids) = d
          /\ Len(result[d].asks) = d
          /\ result[d].depth = d

\* A call that was asked for two depths, one that the snapshot has the levels
\* for, with a level to spare on each side, and one that it has not.
C12_Witness ==
    /\ Len(depth_levels) = 2
    /\ 2 \in DOMAIN result
    /\ 3 \in Range(depth_levels) \ DOMAIN result
    /\ Cardinality(DOMAIN snapshot.bid_levels) = 3
    /\ Cardinality(DOMAIN snapshot.ask_levels) = 2

\* C15: with use_symbol_partitioning, the partition of a routed message is
\* below num_partitions, and any two messages routed for the same symbol,
\* snapshot or CDC, whatever their depth and payload, have the same one.
C15_PartitionBySymbol ==
    topic_config.use_symbol_partitioning =>
        /\ \A i \in DOMAIN routed :
              routed[i].message.partition \in 0..(topic_config.num_partitions - 1)
        /\ \A i, j \in DOMAIN routed :
              routed[i].symbol = routed[j].symbol =>
                  routed[i].message.partition = routed[j].message.partition

\* One symbol was routed three times: two snapshots of different depths and
\* payloads, then a snapshot call repeated or a CDC message; its hash is not
\* below num_partitions.
C15_Witness ==
    /\ topic_config.use_symbol_partitioning
    /\ Len(routed) = 3
    /\ routed[1].symbol = routed[2].symbol /\ routed[2].symbol = routed[3].symbol
    /\ routed[1].kind = "snapshot" /\ routed[2].kind = "snapshot"
    /\ routed[1].depth # routed[2].depth
    /\ routed[1].payload # routed[2].payload
    /\ routed[3].kind = "cdc" \/ routed[3] = routed[1]
    /\ hasher_[routed[1].symbol] >= topic_config.num_partitions

\* C16: route_snapshot returns the topic snapshot_topic_prefix + depth with
\* use_depth_in_topic, snapshot_topic_prefix + symbol without it, and the
\* symbol as the key.
C16_TopicAndKey ==
    \A i \in DOMAIN routed :
        routed[i].kind = "snapshot" =>
            /\ routed[i].message.key = routed[i].symbol
            /\ routed[i].message.topic =
                   IF topic_config.use_depth_in_topic
                   THEN topic_config.snapshot_topic_prefix \o to_string(routed[i].depth)
                   ELSE topic_config.snapshot_topic_prefix \o Chars(routed[i].symbol)

(***************************************************************************)
(* Properties of what the MarketDepthProcessor publishes                   *)
(***************************************************************************)
\* The prices of the levels of one side of the input that have a price and
\* a quantity.
InputPrices(side) ==
    {side.levels[i].price : i \in {j \in 1..Len(side.levels) :
        /\ side.levels[j].present
        /\ side.levels[j].price > 0
        /\ convert_price_level(side.levels[j]).quantity > 0}}

\* The best d prices of a side of the input, best first.
BestPrices(side, prices, d) == SubSeq(IterKeys(side, prices), 1, d)

\* The prices of the levels of a projection, as they are printed.
PrintedPrices(levels) == [i \in 1..Len(levels) |-> levels[i].price]

\* C13: the bids of a published depth-d projection are the d highest bids
\* of the input, highest first, and its asks the d lowest asks, lowest
\* first, in whatever order the input lists its levels.
C13_BestLevelsPublished ==
    \A k \in DOMAIN produced :
        LET json == produced[k].payload
        IN  /\ PrintedPrices(json.bids) =
                   [i \in 1..json.depth |->
                       format_price(BestPrices(Buy, InputPrices(msg.buy_side), json.depth)[i])]
            /\ PrintedPrices(json.asks) =
                   [i \in 1..json.depth |->
                       format_price(BestPrices(Sell, InputPrices(msg.sell_side), json.depth)[i])]

\* The number of messages of depth d in the producer's queue.
EnqueuedFor(d) ==
    Cardinality({k \in DOMAIN produced : produced[k].payload.depth = d})

\* C14: for each configured depth d one message is enqueued when the input
\* has d distinct prices on both sides and none when it has not, and
\* messages_published counts the messages enqueued.
C14_OneMessagePerDepth ==
    success = "true" =>
        /\ \A i \in DOMAIN depth_levels :
              LET d == depth_levels[i]
              IN  EnqueuedFor(d) =
                      IF /\ Cardinality(InputPrices(msg.buy_side)) >= d
                         /\ Cardinality(InputPrices(msg.sell_side)) >= d
                      THEN Cardinality({j \in DOMAIN depth_levels : depth_levels[j] = d})
                      ELSE 0
        /\ metrics_.messages_published = Len(produced)

\* C17: every message enqueued has the topic and the partition that
\* route_snapshot gives for its symbol, depth and payload.
C17_RoutedAsConfigured ==
    \A k \in DOMAIN produced :
        LET message == route_snapshot(msg.symbol, produced[k].payload.depth,
                                      produced[k].payload)
        IN  /\ produced[k].topic = message.topic
            /\ produced[k].partition = message.partition

\* C18: the processing loop is entered (running_ becomes true) only after a
\* successful initialize() and only by a processor that was not stopped
\* before: message_factory_ is built and should_stop_ was never set.
C18_RunOnlyWhenInitialised ==
    [][(~running_ /\ running_') => (message_factory_ /\ ~should_stop_)]_vars

\* Where the main thread is while processing_loop runs.
InLoop == {"loop", "poll"}

\* C19: when start_processing was called with max_runtime_s > 0, the
\* processing loop exits once the runtime limit has passed, also when no
\* other thread calls stop_processing.
C19_RuntimeLimitStops ==
    (/\ at[Main] \in InLoop
     /\ message_factory_
     /\ max_runtime_s > 0
     /\ now - start_time >= max_runtime_s)
        ~> (at[Main] \notin InLoop \/ \E c \in Stoppers : at[c] # "idle")

\* Where the main thread is from the entry of start_processing to the exit
\* of processing_loop.
InRun == {"start_check", "set_running", "clear_stop", "spawn"} \cup InLoop

\* C20: a stop_processing called by another thread while the main thread
\* is anywhere between the entry of start_processing and the exit of the
\* processing loop makes the loop exit.
C20_StopTakesEffect ==
    \A c \in Stoppers :
        (at[c] = "stop_check" /\ at[Main] \in InRun) ~> (at[Main] \notin InRun)

\* C21: when a stop_processing returns after having stopped the processor,
\* the statistics thread has finished and the main thread is no longer in
\* the processing loop.
C21_StopWaitsForWorkers ==
    [][\A c \in Contexts :
          (at[c] = "stop_clear" /\ at'[c] = "idle")
              => (at'[Main] \notin InLoop /\ stats_thread_' \notin {"test", "sleep"})]_vars

\* C22: a stop_processing that completes (running_ becomes false) has
\* flushed the producer's queue and destroyed the consumer.
C22_StopFlushesAndCloses ==
    [][(running_ /\ ~running_')
          => (consumer' = "none" /\ flushed' = Len(produced'))]_vars

\* The step of the processing loop in which a poll returned something of
\* the given kind.
Returned(kind) ==
    /\ at[Main] = "poll"
    /\ at'[Main] # "poll"
    /\ polled' # polled
    /\ received' = kind

\* The step of the processing loop in which a poll returned no message.
ReturnedNothing ==
    /\ at[Main] = "poll"
    /\ at'[Main] # "poll"
    /\ polled' = polled

\* C23: a consumed message whose envelope is not an OrderBookSnapshot adds
\* 1 to messages_consumed, leaves messages_processed and processing_errors
\* as they are, and nothing is published.
C23_OtherTypeOnlyConsumed ==
    [][Returned("other")
          => /\ metrics_'.messages_consumed = metrics_.messages_consumed + 1
             /\ metrics_'.messages_processed = metrics_.messages_processed
             /\ metrics_'.processing_errors = metrics_.processing_errors
             /\ produced' = produced]_vars

\* C24: a snapshot message adds 1 to exactly one of messages_processed and
\* processing_errors and nothing to the other, also when building or
\* publishing one of its messages throws.
C24_ProcessedOrFailed ==
    [][(Returned("snapshot") /\ message_factory_)
          => LET processed == metrics_'.messages_processed - metrics_.messages_processed
                 failed == metrics_'.processing_errors - metrics_.processing_errors
             IN  \/ processed = 1 /\ failed = 0
                 \/ processed = 0 /\ failed = 1]_vars

\* C25: a poll that returns an error other than the end of a partition adds
\* 1 to kafka_errors and changes no other counter; a poll that returns no
\* message or the end of a partition changes no counter; in the three cases
\* nothing is published and the loop goes on to its next test.
C25_PollWithoutMessage ==
    [][/\ Returned("error")
          => /\ metrics_' = [metrics_ EXCEPT !.kafka_errors = @ + 1]
             /\ produced' = produced
             /\ at'[Main] = "loop"
       /\ (Returned("eof") \/ ReturnedNothing)
          => /\ metrics_' = metrics_
             /\ produced' = produced
             /\ at'[Main] = "loop"]_vars

\* C25: a poll has returned an error to the loop, which counted it and is
\* back at its test.
C25_Witness ==
    /\ received = "error"
    /\ metrics_.kafka_errors = 1
    /\ at[Main] = "loop"
    /\ running_

\* C27: a consumer or a producer is initialised only in a processor whose
\* initialize() succeeded: a failing initialize() leaves none behind.
C27_NoPartialInitialise ==
    (consumer # "none" \/ producer) => message_factory_

\* C28: while the main thread is inside start_processing, none of
\* messages_consumed, messages_processed, messages_published,
\* processing_errors and kafka_errors decreases from one state to the next.
C28_CountersMonotone ==
    [][(at[Main] # "idle" /\ at'[Main] # "idle")
          => /\ metrics_'.messages_consumed >= metrics_.messages_consumed
             /\ metrics_'.messages_processed >= metrics_.messages_processed
             /\ metrics_'.messages_published >= metrics_.messages_published
             /\ metrics_'.processing_errors >= metrics_.processing_errors
             /\ metrics_'.kafka_errors >= metrics_.kafka_errors]_vars

\* C28: during a run a message was consumed and counted.
C28_Witness ==
    /\ at[Main] = "loop"
    /\ running_
    /\ metrics_.messages_consumed > 0
    /\ metrics_.processing_errors > 0

\* C26: when rd_kafka_produce refused a message of the snapshot (fewer
\* messages are in the producer's queue than the snapshot has publishing
\* depths), a counter of errors records it.
C26_RefusalCounted ==
    (success = "true" /\ Len(produced) < Cardinality(PublishingDepths(msg)))
        => metrics_.processing_errors + metrics_.kafka_errors > 0

\* The levels of a side of the recorded input that process_price_levels
\* looks at under the configured cap: the first max_price_levels of them.
FirstLevels(side) ==
    IF side.present
    THEN SubSeq(side.levels, 1, Min(Len(side.levels), config_.max_price_levels))
    ELSE <<>>

\* The map holds the levels of kept that are not null, and nothing else: at
\* each price the orders of the last of them with that price.
HoldsLevels(map, kept) ==
    /\ DOMAIN map = {kept[i].price : i \in {j \in DOMAIN kept : kept[j].present}}
    /\ \A i \in DOMAIN kept :
          (/\ kept[i].present
           /\ \A j \in DOMAIN kept : (j > i /\ kept[j].present)
                                        => kept[j].price # kept[i].price)
              => LET sums == IF kept[i].orders.present
                             THEN SumOrders(0, 0, kept[i].orders.items, 1)
                             ELSE <<0, 0>>
                 IN  /\ map[kept[i].price].price = kept[i].price
                     /\ map[kept[i].price].quantity = sums[1]
                     /\ map[kept[i].price].num_orders = sums[2]

\* C29: after any sequence of calls, a snapshot for the book's symbol was
\* processed successfully, each side of the current snapshot has at most
\* max_price_levels levels, and they are the first max_price_levels levels
\* of the input, whatever the number of levels the input has.
C29_CappedInInputOrder ==
    (ret # "none" /\ ~arg.null /\ ~SymbolRejected(arg.symbol))
        => /\ ret = "true"
           /\ Cardinality(DOMAIN current_snapshot_.bid_levels) <= config_.max_price_levels
           /\ Cardinality(DOMAIN current_snapshot_.ask_levels) <= config_.max_price_levels
           /\ HoldsLevels(current_snapshot_.bid_levels, FirstLevels(arg.buy_side))
           /\ HoldsLevels(current_snapshot_.ask_levels, FirstLevels(arg.sell_side))

\* C29: the second snapshot had more levels on both sides than the cap and
\* was processed; its buy side is filled up to the cap.
C29_Witness ==
    /\ ret = "true"
    /\ message_count_ = 2
    /\ arg.buy_side.present
    /\ Len(arg.buy_side.levels) > config_.max_price_levels
    /\ arg.sell_side.present
    /\ Len(arg.sell_side.levels) > config_.max_price_levels
    /\ Cardinality(DOMAIN current_snapshot_.bid_levels) = config_.max_price_levels

\* C30: no level with price 0 is stored in the current snapshot, and none is
\* in a CDC event handed to the callback.
C30_NoZeroPrice ==
    /\ 0 \notin DOMAIN current_snapshot_.bid_levels
    /\ 0 \notin DOMAIN current_snapshot_.ask_levels
    /\ \A k \in DOMAIN delivered : delivered[k].level.price # 0

\* C31: a snapshot of the book's symbol whose seq is not above the sequence of
\* the current snapshot is processed like any other: the call returns true,
\* counts the message, the current snapshot takes the seq of the input (the
\* sequence may go down), and the events delivered are the difference between
\* the snapshot that was current on entry and the new one.
C31_RegressionProcessed ==
    [][(/\ consumed' # consumed
        /\ ~arg'.null
        /\ ~SymbolRejected(arg'.symbol)
        /\ arg'.seq <= current_snapshot_.sequence)
       => /\ ret' = "true"
          /\ message_count_' = message_count_ + 1
          /\ current_snapshot_'.sequence = arg'.seq
          /\ GeneratesCdc =>
                delivered' =
                  generate_cdc_events(current_snapshot_.bid_levels,
                                      current_snapshot_'.bid_levels, Buy, arg'.seq)
                  \o generate_cdc_events(current_snapshot_.ask_levels,
                                         current_snapshot_'.ask_levels, Sell,
                                         arg'.seq)]_vars

\* A snapshot of seq 1 superseded one of seq 2 and its difference was
\* delivered.
C31_Witness ==
    /\ ret = "true"
    /\ arg.seq = 1
    /\ current_snapshot_.sequence = 1
    /\ previous_snapshot_.sequence = 2
    /\ delivered # <<>>
    /\ \A i \in 1..Len(delivered) : delivered[i].sequence = 1

\* The bitwise exclusive or of two bytes.
RECURSIVE XorByte(_, _)
XorByte(a, b) ==
    IF a = 0 THEN b
    ELSE IF b = 0 THEN a
    ELSE ((a + b) % 2) + 2 * XorByte(a \div 2, b \div 2)

\* A 64-bit word as its eight bytes, the lowest first: the FNV offset basis
\* 0xcbf29ce484222325 and the FNV prime 0x00000100000001b3.
FnvOffsetBasis == <<37, 35, 34, 132, 228, 156, 242, 203>>
FnvPrime == <<179, 1, 0, 0, 0, 1, 0, 0>>

\* The sum of x[i] * y[k + 1 - i] over i in 1..k.
RECURSIVE ColumnSum(_, _, _, _)
ColumnSum(x, y, k, i) ==
    IF i > k THEN 0 ELSE x[i] * y[k + 1 - i] + ColumnSum(x, y, k, i + 1)

\* The bytes k..8 of the product of two words modulo 2^64.
RECURSIVE MulBytes(_, _, _, _)
MulBytes(x, y, k, carry) ==
    IF k > 8 THEN <<>>
    ELSE LET column == carry + ColumnSum(x, y, k, 1)
         IN  <<column % 256>> \o MulBytes(x, y, k + 1, column \div 256)

\* FNV-1a over the bytes i.. of a string: xor the byte in, multiply by the
\* prime.
RECURSIVE Fnv1a(_, _, _)
Fnv1a(bytes, hash, i) ==
    IF i > Len(bytes) THEN hash
    ELSE Fnv1a(bytes,
               MulBytes([hash EXCEPT ![1] = XorByte(hash[1], bytes[i])],
                        FnvPrime, 1, 0),
               i + 1)

\* A word modulo n, from its highest byte down.
RECURSIVE WordMod(_, _, _)
WordMod(word, n, i) ==
    IF i = 0 THEN 0 ELSE (WordMod(word, n, i - 1) * 256 + word[9 - i]) % n

\* The UTF-8 bytes of the symbols.
SymbolBytes ==
    [sym \in Symbols |-> IF sym = "ABC" THEN <<65, 66, 67>> ELSE <<88, 89, 90>>]

\* C32: with symbol partitioning the partition of every routed message is
\* the FNV-1a 64-bit hash of the bytes of its symbol modulo num_partitions,
\* whatever std::hash the build has.
C32_PartitionIsFnv1a ==
    topic_config.use_symbol_partitioning =>
        \A i \in DOMAIN routed :
            routed[i].message.partition =
                WordMod(Fnv1a(SymbolBytes[routed[i].symbol], FnvOffsetBasis, 1),
                        topic_config.num_partitions, 8)

\* C33: an iteration of the loop that starts when flush_interval has passed
\* since the last flush requests a flush, whatever the poll returned.
C33_FlushWhenDue ==
    [][(/\ at[Main] = "poll"
        /\ at'[Main] = "loop"
        /\ now - last_flush_time_ >= flush_interval)
       => last_flush_time_' = now]_vars

\* The largest and the smallest of a non-empty sequence of unsigned values,
\* and the sum of a sequence modulo 2^64.
Largest(samples) ==
    CHOOSE x \in Range(samples) : \A y \in Range(samples) : ~Below(x, y)

Smallest(samples) ==
    CHOOSE x \in Range(samples) : \A y \in Range(samples) : ~Below(y, x)

RECURSIVE Total(_)
Total(samples) ==
    IF samples = <<>> THEN 0 ELSE Head(samples) + Total(Tail(samples))

\* Every call of update_processing_time made has returned.
AllReturned ==
    submitted # <<>> /\ \A t \in Updaters : update[t].at = "idle"

\* C34: in no step does max_processing_time_us decrease or
\* min_processing_time_us increase, and when every call made by the threads
\* has returned, max_processing_time_us is the largest sample,
\* min_processing_time_us the smallest and total_processing_time_us the sum
\* of the samples modulo 2^64.
C34_MinMaxSum ==
    [][/\ ~Below(max_processing_time_us', max_processing_time_us)
       /\ ~Below(min_processing_time_us, min_processing_time_us')
       /\ AllReturned' =>
             /\ max_processing_time_us' = Largest(submitted')
             /\ min_processing_time_us' = Smallest(submitted')
             /\ total_processing_time_us' = Total(submitted')]_vars

\* Calls that overlapped have all returned; the samples differ and their sum
\* passed 2^64.
C34_Witness ==
    /\ AllReturned
    /\ overlapped
    /\ Len(submitted) = 3
    /\ UINT64_MAX \in Range(submitted)
    /\ max_processing_time_us = UINT64_MAX
    /\ min_processing_time_us = 1
    /\ total_processing_time_us = 2

\* C35: while the loop of print_statistics is inside symbol_message_counts
\* the worker inserts no symbol into the map.
C35_NoInsertWhileIterating ==
    [][stats.at = "iterate" =>
          Keys(metrics_'.symbol_message_counts)
              = Keys(metrics_.symbol_message_counts)]_vars

\* C36: in every message enqueued, total_bid_levels and total_ask_levels are
\* the numbers of bid and ask levels of the whole input, whatever the depth
\* of the projection, and has_sufficient_depth tells whether both are at
\* least the depth.
C36_TotalsOfWholeSnapshot ==
    \A k \in DOMAIN produced :
        LET json == produced[k].payload
            bids == Cardinality(InputPrices(msg.buy_side))
            asks == Cardinality(InputPrices(msg.sell_side))
        IN  /\ json.market_stats.total_bid_levels = bids
            /\ json.market_stats.total_ask_levels = asks
            /\ json.market_stats.has_sufficient_depth
                   = (bids >= json.depth /\ asks >= json.depth)

\* The best price of each side of a snapshot that has levels on both sides.
BidTop(snap) == CHOOSE p \in DOMAIN snap.bid_levels :
                    \A q \in DOMAIN snap.bid_levels : q <= p
AskTop(snap) == CHOOSE p \in DOMAIN snap.ask_levels :
                    \A q \in DOMAIN snap.ask_levels : p <= q

\* C37: when a projection has both sides, its spread is the best ask minus
\* the best bid, not a value wrapped around 2^64, also when the best bid is
\* above the best ask, and its mid_price is the integer mean of the two.
C37_SpreadAndMidPrice ==
    \A d \in DOMAIN result :
        LET market == result[d].market_stats
        IN  market.spread.present =>
               /\ ~market.spread.wrapped
               /\ AskTop(snapshot) >= BidTop(snapshot) =>
                     market.spread.text
                         = format_price(AskTop(snapshot) - BidTop(snapshot))
               /\ market.mid_price.text
                     = format_price((AskTop(snapshot) + BidTop(snapshot)) \div 2)

\* C38: whenever messages_processed is above zero a processing time has
\* been recorded: min_processing_time_us is no longer UINT64_MAX and is not
\* above max_processing_time_us.
C38_ProcessedHasLatency ==
    metrics_.messages_processed > 0 =>
        /\ min_processing_time_us # UINT64_MAX
        /\ ~Below(max_processing_time_us, min_processing_time_us)

\* C39: of the calls of stop_processing that overlap at most one is inside
\* stats_thread_.join(), and a call made while the processor is not running
\* returns without changing running_, should_stop_ or the thread.
C39_OneJoin ==
    [][/\ Cardinality({c \in Contexts : at'[c] = "stop_joining"}) <= 1
       /\ \A c \in Contexts :
             (at[c] = "stop_check" /\ ~running_ /\ at'[c] # at[c])
                 => /\ at'[c] = "idle"
                    /\ UNCHANGED <<running_, should_stop_, stats_thread_>>]_vars

RECURSIVE SumOver(_, _)
SumOver(f, keys) ==
    IF keys = {} THEN 0
    ELSE LET k == CHOOSE x \in keys : TRUE
         IN  f[k] + SumOver(f, keys \ {k})

\* The OrderBooks in the manager's map.
Tracked == {orderbooks_[s] : s \in {x \in Symbols : orderbooks_[x] # 0}}

\* C40: when no thread is inside OrderBookManager::process_snapshot,
\* messages_processed is the sum of symbol_message_counts and the sum of the
\* message counts of the OrderBooks in the map, and messages_processed plus
\* processing_errors is the number of calls that got to an OrderBook.
C40_StatsAgree ==
    (\A t \in Threads : inside[t] = "none") =>
        /\ stats_.messages_processed = SumOver(stats_.symbol_message_counts, Symbols)
        /\ stats_.messages_processed = SumOver(message_counts, Tracked)
        /\ stats_.messages_processed + stats_.processing_errors = reached
====
